---- MODULE Spec2Model ----
(***************************************************************************)
(* A model of consolekit: the colour/style stacks of terminal_colours.py,  *)
(* the colour default resolver, the markdown terminal renderer used by the *)
(* markdown help commands, the prompts of input.py, the traceback handlers *)
(* of tracebacks.py, SuggestionGroup.resolve_command, Colour.from_hex and   *)
(* overtype, long_echo and hidden_cursor of utils.py.                      *)
(*                                                                         *)
(* A string is a sequence of one-character strings.  The character U+001B  *)
(* (escape) is written "ESC", U+0336 (combining long stroke overlay) is    *)
(* written "U0336" and the newline is written "NL".                        *)
(***************************************************************************)
EXTENDS Integers, Sequences, FiniteSets, TLC

VARIABLES
    fore_stack,     \* terminal_colours.fore_stack
    back_stack,     \* terminal_colours.back_stack
    style_stack,    \* terminal_colours.style_stack
    scopes,         \* number of with-blocks currently open on each Colour
    stdout,         \* what the most recent call printed (a sequence of strings)
    ret,            \* the value returned by the most recent call (<<>> for None)
    raised,         \* the exception raised by the most recent call, or "none"
    last,           \* the most recent call: its method, its Colour and its text
    hist,           \* the scope entries and exits made in a row up to now (the last three)
    prev,           \* the three stacks as they were before the most recent call
    open_scopes,    \* the Colours of the with-blocks that are open, outermost first
    nesting_ok,     \* every with-block so far ended before the block around it
    last_printed,   \* per stack, the sequence printed last by a scope entry or exit
    environ,        \* os.environ: a function from the names that are set to strings
    ctx_stack,      \* click's stack of active contexts (empty: no current context)
    color,          \* the argument of resolve_color_default
    resolved,       \* what resolve_color_default returned or raised
    pc,             \* "start" before the call the specification makes, "done" after
    doc,            \* the parsed help text: a mistletoe Document
    colour,         \* MarkdownHelpMixin._colour
    pycharm_terminal,   \* what _pycharm_terminal() returns (cached for the process)
    in_ordered_list,    \* TerminalRenderer._in_ordered_list
    ol_number,      \* TerminalRenderer._ol_number
    rendered,       \* what TerminalRenderer.render returned
    written,        \* what format_help_text wrote to the formatter
    hpc,            \* "start", then "rendered" (render) or "written" (format_help_text)
    func,           \* the function of input.py that was called
    args,           \* its arguments
    frame,          \* the locals of the running prompt(): where it is, value, result
    echoed,         \* what click.echo has written since the call, one string per call
    retval,         \* <<>> until the call returns, then <<the value returned>>
    exc,            \* "none", or the exception that left the call
    reads,          \* how often the call has read from the terminal
    entered,        \* what the most recent read gave: a line or an exception
    handler,        \* the context manager of tracebacks.py in use, and its arguments
    thrown,         \* the exception the body of the with block raises
    stderr,         \* what has been written to stderr, one string per click.echo
    left,           \* the exception that left the with block (<<>>: none)
    tpc,            \* "body" inside the with block, "done" after it
    callee,         \* the function called: resolve_command, overtype, long_echo, ...
    params,         \* its arguments, and what the calls it makes to click do
    isatty,         \* sys.stdout.isatty()
    stream,         \* the characters written to the stream (or shown by the pager)
    call_result,    \* what the call returned or raised
    cpc             \* "start" before the call, "body" in a with block, "done" after

colour_vars ==
    <<fore_stack, back_stack, style_stack, scopes, stdout, ret, raised, last, hist, prev,
      open_scopes, nesting_ok, last_printed>>

env_vars == <<environ, ctx_stack>>

resolve_vars == <<color, resolved, pc>>

help_vars ==
    <<doc, colour, pycharm_terminal, in_ordered_list, ol_number, rendered, written, hpc>>

input_vars == <<func, args, frame, echoed, retval, exc, reads, entered>>

traceback_vars == <<handler, thrown, stderr, left, tpc>>

call_vars == <<callee, params, isatty, stream, call_result, cpc>>

vars ==
    <<colour_vars, env_vars, resolve_vars, help_vars, input_vars, traceback_vars,
      call_vars>>

\* What the calls on a Colour leave alone, what resolve_color_default does,
\* what the renderer and format_help_text do, what the prompts do and what
\* the traceback handlers do.
not_colour_vars ==
    <<env_vars, resolve_vars, help_vars, input_vars, traceback_vars, call_vars>>
not_resolve_vars ==
    <<colour_vars, env_vars, help_vars, input_vars, traceback_vars, call_vars>>
not_help_vars ==
    <<colour_vars, env_vars, resolve_vars, input_vars, traceback_vars, call_vars>>
not_input_vars ==
    <<colour_vars, env_vars, resolve_vars, help_vars, traceback_vars, call_vars>>
not_traceback_vars ==
    <<colour_vars, env_vars, resolve_vars, help_vars, input_vars, call_vars>>
not_call_vars ==
    <<colour_vars, env_vars, resolve_vars, help_vars, input_vars, traceback_vars>>

\* The number of entries the three stacks may hold above their first entries.
MaxDepth == 2

\* The number of items of a list of the help text.
MaxItems == 3

\* How deep strong, emphasis and strikethrough nest in the help text.
MaxNest == 2

-----------------------------------------------------------------------------
(* Strings *)

Last(s) == s[Len(s)]

Front(s) == SubSeq(s, 1, Len(s) - 1)

DecimalDigits == <<"0", "1", "2", "3", "4", "5", "6", "7", "8", "9">>

RECURSIVE Str(_)
\* str(n) for a non-negative integer
Str(n) == IF n < 10 THEN <<DecimalDigits[n + 1]>>
          ELSE Str(n \div 10) \o <<DecimalDigits[(n % 10) + 1]>>

CSI == <<"ESC", "[">>

code_to_chars(code) == CSI \o Str(code) \o <<"m">>

-----------------------------------------------------------------------------
(* Colour and the AnsiCodes tables *)

\* Colour.__new__: the string value of a Colour is its style.
Colour(style, stack, reset) == [style |-> style, stack |-> stack, reset |-> reset]

AnsiFore_reset == CSI \o <<"3", "9", "m">>
AnsiBack_reset == CSI \o <<"4", "9", "m">>
AnsiStyle_reset == CSI \o <<"2", "2", "m">>

\* The class attributes (numbers) of the three AnsiCodes subclasses used here.
AnsiForeValues == [RED |-> 31, GREEN |-> 32, RESET |-> 39]
AnsiBackValues == [BLUE |-> 44, RESET |-> 49]
AnsiStyleValues == [BRIGHT |-> 1, NORMAL |-> 22]

\* AnsiCodes.__init_subclass__ wraps every public attribute of the subclass
\* in a Colour on the subclass's _stack, with the subclass's _reset.
init_subclass(values, stack, reset) ==
    [name \in DOMAIN values |-> Colour(code_to_chars(values[name]), stack, reset)]

Fore == init_subclass(AnsiForeValues, "fore", AnsiFore_reset)
Back == init_subclass(AnsiBackValues, "back", AnsiBack_reset)
Style == init_subclass(AnsiStyleValues, "style", AnsiStyle_reset)

ForeCodes == {Fore[n] : n \in DOMAIN Fore}
BackCodes == {Back[n] : n \in DOMAIN Back}
StyleCodes == {Style[n] : n \in DOMAIN Style}

Colours == ForeCodes \cup BackCodes \cup StyleCodes

\* The texts given to Colour.__call__.
Texts == {<<>>, <<"H", "i">>}

-----------------------------------------------------------------------------
(* The colour stacks *)

StackOf(c) == CASE c.stack = "fore" -> fore_stack
                [] c.stack = "back" -> back_stack
                [] c.stack = "style" -> style_stack

Stacks == <<fore_stack, back_stack, style_stack>>

\* The stack of c before the most recent call.
PrevStackOf(c) == CASE c.stack = "fore" -> prev[1]
                    [] c.stack = "back" -> prev[2]
                    [] c.stack = "style" -> prev[3]

Record(op, c) == IF Len(hist) < 3 THEN Append(hist, [op |-> op, c |-> c])
                 ELSE Append(Tail(hist), [op |-> op, c |-> c])

NoCall == [op |-> "none", c |-> Fore.RESET, text |-> <<>>]

\* The module's last statements: each stack starts with its reset entry.
InitStacks ==
    /\ fore_stack = <<Fore.RESET.style>>
    /\ back_stack = <<Back.RESET.style>>
    /\ style_stack = <<Style.NORMAL.style>>

InitColours ==
    /\ InitStacks
    /\ scopes = [c \in Colours |-> 0]
    /\ stdout = <<>>
    /\ ret = <<>>
    /\ raised = "none"
    /\ last = NoCall
    /\ hist = <<>>
    /\ prev = <<fore_stack, back_stack, style_stack>>
    /\ open_scopes = <<>>
    /\ nesting_ok = TRUE
    /\ last_printed = [name \in {"fore", "back", "style"} |-> <<>>]

\* self.stack.append(self.style), on the stack the Colour owns
PushAll(c, name, stk) == Append(stk, c.style)

PushNone(c, name, stk) == stk

Push(c, name, stk) == IF c.stack = name THEN Append(stk, c.style) ELSE stk

\* Colour.__enter__
Enter(c) ==
    /\ Len(fore_stack) + Len(back_stack) + Len(style_stack) < MaxDepth + 3
    /\ stdout' = <<c.style>>
    /\ fore_stack' = Push(c, "fore", fore_stack)
    /\ back_stack' = Push(c, "back", back_stack)
    /\ style_stack' = Push(c, "style", style_stack)
    /\ scopes' = [scopes EXCEPT ![c] = @ + 1]
    /\ ret' = <<>>
    /\ raised' = "none"
    /\ last' = [op |-> "enter", c |-> c, text |-> <<>>]
    /\ hist' = Record("enter", c)
    /\ prev' = Stacks
    /\ open_scopes' = Append(open_scopes, c)
    /\ last_printed' = [last_printed EXCEPT ![c.stack] = c.style]
    /\ UNCHANGED nesting_ok
    /\ UNCHANGED not_colour_vars

\* The test of Colour.__exit__: the Colour is the top entry of its stack.
IsTopAlways(c, stk) == TRUE

IsTop(c, stk) == stk # <<>> /\ c.style = Last(stk)

\* self.stack.pop() were left out
PopNothing(c, name, stk) == stk

\* self.stack.pop(), on the stack the Colour owns
Pop(c, name, stk) == IF c.stack = name /\ IsTop(c, stk) THEN Front(stk) ELSE stk

\* print(self.stack[-1], end=''): the new top entry of the stack
PrintTopReset(c, stk) == <<c.reset>>

PrintTop(c, stk) == <<Last(Front(stk))>>

\* The open with-blocks without the innermost one on c.
Closed(c) ==
    LET i == CHOOSE k \in 1..Len(open_scopes) :
                 /\ open_scopes[k] = c
                 /\ \A m \in (k + 1)..Len(open_scopes) : open_scopes[m] # c
    IN SubSeq(open_scopes, 1, i - 1) \o SubSeq(open_scopes, i + 1, Len(open_scopes))

\* Colour.__exit__, called when a with-block on c ends: the with statement
\* calls it only for a Colour whose __enter__ it has called.  self.stack[-1]
\* raises IndexError on an empty stack.
Exit(c) ==
    /\ scopes[c] > 0
    /\ fore_stack' = Pop(c, "fore", fore_stack)
    /\ back_stack' = Pop(c, "back", back_stack)
    /\ style_stack' = Pop(c, "style", style_stack)
    /\ IF StackOf(c) = <<>> \/ (IsTop(c, StackOf(c)) /\ Len(StackOf(c)) = 1)
       THEN stdout' = <<>> /\ raised' = "IndexError"
       ELSE /\ stdout' = IF IsTop(c, StackOf(c)) THEN PrintTop(c, StackOf(c)) ELSE <<>>
            /\ raised' = "none"
    /\ scopes' = [scopes EXCEPT ![c] = @ - 1]
    /\ ret' = <<>>
    /\ last' = [op |-> "exit", c |-> c, text |-> <<>>]
    /\ hist' = Record("exit", c)
    /\ prev' = Stacks
    /\ open_scopes' = Closed(c)
    /\ nesting_ok' = (nesting_ok /\ Last(open_scopes) = c)
    /\ last_printed' = IF stdout' # <<>>
                       THEN [last_printed EXCEPT ![c.stack] = stdout'[1]]
                       ELSE last_printed
    /\ UNCHANGED not_colour_vars

\* Colour.__call__: f"{self}{text}{self.reset}"
CallNoReset(c, text) == c.style \o text

call(c, text) == c.style \o text \o c.reset

Call(c, text) ==
    /\ ret' = call(c, text)
    /\ stdout' = <<>>
    /\ raised' = "none"
    /\ last' = [op |-> "call", c |-> c, text |-> text]
    /\ hist' = <<>>
    /\ prev' = Stacks
    /\ UNCHANGED <<fore_stack, back_stack, style_stack, scopes>>
    /\ UNCHANGED <<open_scopes, nesting_ok, last_printed>>
    /\ UNCHANGED not_colour_vars

-----------------------------------------------------------------------------
(* resolve_color_default *)

\* ColourTrilean: True, False or None
Trilean == {"True", "False", "None"}

EnvNames == {"NO_COLOR", "PYCHARM_HOSTED"}

\* The values an environment variable takes here.
EnvStrings == {<<"0">>, <<"1">>, <<"0", "0">>, <<"-", "1">>, <<"1", "0">>, <<"y", "e", "s">>}

EnvStates == UNION {[S -> EnvStrings] : S \in SUBSET EnvNames}

ContextStacks == {<<>>} \cup {<<[color |-> t]>> : t \in Trilean}

DigitValue(ch) == CHOOSE d \in 0..9 : DecimalDigits[d + 1] = ch

IsDigit(ch) == \E d \in 0..9 : DecimalDigits[d + 1] = ch

RECURSIVE DigitsValue(_)
DigitsValue(s) == IF s = <<>> THEN 0
                  ELSE 10 * DigitsValue(Front(s)) + DigitValue(Last(s))

\* int(s) for the strings an environment variable holds and the lines typed
\* here (none has whitespace around a number): an optional sign and one or
\* more decimal digits give the number; the other strings raise ValueError
\* (ok is FALSE).
int(s) ==
    LET signed == s # <<>> /\ Head(s) \in {"+", "-"}
        digits == IF signed THEN Tail(s) ELSE s
    IN IF digits # <<>> /\ \A i \in 1..Len(digits) : IsDigit(digits[i])
       THEN [ok |-> TRUE,
             val |-> IF signed /\ Head(s) = "-" THEN 0 - DigitsValue(digits)
                     ELSE DigitsValue(digits)]
       ELSE [ok |-> FALSE, val |-> 0]

\* int(os.environ.get(name, 0))
env_int(name) == IF name \in DOMAIN environ THEN int(environ[name])
                 ELSE [ok |-> TRUE, val |-> 0]

Return(value) == [value |-> value, raised |-> "none"]

Raise(exception) == [value |-> "None", raised |-> exception]

\* click.get_current_context(silent=True): the top of the stack, or None
HasContext == ctx_stack # <<>>

\* The two environment tests and the final return None.
from_environ_pycharm_first ==
    IF ~env_int("PYCHARM_HOSTED").ok THEN Raise("ValueError")
    ELSE IF env_int("PYCHARM_HOSTED").val # 0 THEN Return("True")
    ELSE IF ~env_int("NO_COLOR").ok THEN Raise("ValueError")
    ELSE IF env_int("NO_COLOR").val # 0 THEN Return("False")
    ELSE Return("None")

from_environ ==
    IF ~env_int("NO_COLOR").ok THEN Raise("ValueError")
    ELSE IF env_int("NO_COLOR").val # 0 THEN Return("False")
    ELSE IF ~env_int("PYCHARM_HOSTED").ok THEN Raise("ValueError")
    ELSE IF env_int("PYCHARM_HOSTED").val # 0 THEN Return("True")
    ELSE Return("None")

\* The test of the current context, and what follows it.
from_context_environ_first ==
    IF from_environ.raised # "none" \/ from_environ.value # "None" THEN from_environ
    ELSE IF HasContext /\ Last(ctx_stack).color # "None" THEN Return(Last(ctx_stack).color)
    ELSE Return("None")

from_context ==
    IF HasContext /\ Last(ctx_stack).color # "None" THEN Return(Last(ctx_stack).color)
    ELSE from_environ

resolve_context_first(c) ==
    IF HasContext /\ Last(ctx_stack).color # "None" THEN Return(Last(ctx_stack).color)
    ELSE IF c # "None" THEN Return(c)
    ELSE from_environ

resolve_color_default(c) == IF c # "None" THEN Return(c) ELSE from_context

IdleEnv ==
    /\ environ = <<>>
    /\ ctx_stack = <<>>

IdleResolve ==
    /\ color = "None"
    /\ resolved = Return("None")
    /\ pc = "idle"

InitResolve ==
    /\ environ \in EnvStates
    /\ ctx_stack \in ContextStacks
    /\ color \in Trilean
    /\ resolved = Return("None")
    /\ pc = "start"

\* A call of resolve_color_default(color)
ResolveColorDefault ==
    /\ pc = "start"
    /\ resolved' = resolve_color_default(color)
    /\ pc' = "done"
    /\ UNCHANGED color
    /\ UNCHANGED not_resolve_vars

-----------------------------------------------------------------------------
(* The markdown document *)

Node(type, children, content, start) ==
    [type |-> type, children |-> children, content |-> content, start |-> start]

RawText(content) == Node("RawText", <<>>, content, <<>>)
Strong(children) == Node("Strong", children, <<>>, <<>>)
Emphasis(children) == Node("Emphasis", children, <<>>, <<>>)
Strikethrough(children) == Node("Strikethrough", children, <<>>, <<>>)
InlineCode(content) == Node("InlineCode", <<RawText(content)>>, <<>>, <<>>)
LineBreak == Node("LineBreak", <<>>, <<>>, <<>>)
Paragraph(children) == Node("Paragraph", children, <<>>, <<>>)
ListItem(children) == Node("ListItem", children, <<>>, <<>>)
\* start is <<>> for None (a bullet list) and <<n>> for a list numbered from n
List(start, children) == Node("List", children, <<>>, start)
Document(children) == Node("Document", children, <<>>, <<>>)

SpanLeaves == {RawText(<<"a">>), InlineCode(<<"b">>)}

RECURSIVE Spans(_)
Spans(n) ==
    IF n = 0 THEN SpanLeaves
    ELSE LET S == Spans(n - 1)
         IN S \cup {Strikethrough(<<x>>) : x \in S} \cup {Strong(<<x>>) : x \in S}
              \cup {Emphasis(<<x>>) : x \in S}

Paragraphs ==
    {Paragraph(<<x>>) : x \in Spans(MaxNest)}
        \cup {Paragraph(<<RawText(<<"a">>), LineBreak, RawText(<<"b">>)>>),
              Paragraph(<<Strong(<<RawText(<<"a">>)>>), RawText(<<" ", "b">>)>>)}

ItemA == ListItem(<<Paragraph(<<RawText(<<"a">>)>>)>>)
ItemB == ListItem(<<Paragraph(<<Strikethrough(<<RawText(<<"b">>)>>)>>)>>)

FlatItems == {ItemA, ItemB}

InnerLists == {List(<<>>, <<ItemA>>), List(<<1>>, <<ItemA, ItemA>>)}

NestedItems == {ListItem(<<Paragraph(<<RawText(<<"a">>)>>), l>>) : l \in InnerLists}

ListStarts == {<<>>, <<1>>}

ListsOf(items) ==
    {List(st, ch) : st \in ListStarts, ch \in UNION {[1..n -> items] : n \in 1..MaxItems}}

FlatLists == ListsOf(FlatItems)

Lists == ListsOf(FlatItems \cup NestedItems)

\* Two blocks: a paragraph and a list, or two lists.
PairBlocks == {Paragraph(<<RawText(<<"a">>)>>),
               List(<<>>, <<ItemA, ItemB>>), List(<<1>>, <<ItemA, ItemB>>)}

\* "5. a", "6. b": a list whose first number is not 1
ListFromFive == List(<<5>>, <<ItemA, ItemB>>)

Documents ==
    {Document(<<x>>) : x \in Paragraphs \cup Lists \cup {ListFromFive}}
        \cup {Document(<<x, y>>) : x \in PairBlocks, y \in PairBlocks}

-----------------------------------------------------------------------------
(* TerminalRenderer *)

AsciiLetters ==
    {"a", "b", "c", "d", "e", "f", "g", "h", "i", "j", "k", "l", "m",
     "n", "o", "p", "q", "r", "s", "t", "u", "v", "w", "x", "y", "z",
     "A", "B", "C", "D", "E", "F", "G", "H", "I", "J", "K", "L", "M",
     "N", "O", "P", "Q", "R", "S", "T", "U", "V", "W", "X", "Y", "Z"}

Whitespace == {" ", "NL"}

\* SANS_SERIF_ITALIC_LETTERS(text): every ASCII letter becomes its
\* mathematical sans-serif italic counterpart, every other character stays.
SansSerifItalic(ch) == IF ch \in AsciiLetters THEN "italic-" \o ch ELSE ch

RECURSIVE SANS_SERIF_ITALIC_LETTERS(_)
SANS_SERIF_ITALIC_LETTERS(text) ==
    IF text = <<>> THEN <<>>
    ELSE <<SansSerifItalic(Head(text))>> \o SANS_SERIF_ITALIC_LETTERS(Tail(text))

RECURSIVE lstrip(_)
lstrip(s) == IF s # <<>> /\ Head(s) \in Whitespace THEN lstrip(Tail(s)) ELSE s

RECURSIVE rstrip(_)
rstrip(s) == IF s # <<>> /\ Last(s) \in Whitespace THEN rstrip(Front(s)) ELSE s

strip(s) == rstrip(lstrip(s))

\* render without the replacement of newlines
collapse_newlines_skipped(s) == s

RECURSIVE collapse_newlines(_)
\* str.replace("\n\n\n", "\n\n"): one pass from the left, matches do not overlap
collapse_newlines(s) ==
    IF Len(s) < 3 THEN s
    ELSE IF SubSeq(s, 1, 3) = <<"NL", "NL", "NL">>
         THEN <<"NL", "NL">> \o collapse_newlines(SubSeq(s, 4, Len(s)))
         ELSE <<Head(s)>> \o collapse_newlines(Tail(s))

\* int(os.environ.get("PYCHARM_HOSTED", 0)) as a condition
pycharm_hosted == env_int("PYCHARM_HOSTED").val # 0

render_strong(inner) == call(Style.BRIGHT, inner)

render_emphasis(inner) ==
    IF pycharm_hosted THEN SANS_SERIF_ITALIC_LETTERS(inner)
    ELSE code_to_chars(3) \o inner \o code_to_chars(23)

\* repr() of a string of printable characters without quotes or backslashes
render_inline_code(inner) == <<"'">> \o inner \o <<"'">>

RECURSIVE Overlay(_)
Overlay(s) == IF s = <<>> THEN <<>> ELSE <<Head(s), "U0336">> \o Overlay(Tail(s))

render_strikethrough(inner) ==
    IF pycharm_hosted \/ pycharm_terminal THEN inner ELSE Overlay(inner)

render_paragraph(inner) == <<"NL">> \o inner \o <<"NL">>

render_line_break == <<" ">>

\* The renderer's state: _in_ordered_list and _ol_number.
RendererState(ol, num) == [in_ordered_list |-> ol, ol_number |-> num]

Rendered(out, st) == [out |-> out, st |-> st]

\* f" {self._ol_number}. {...}" and f" * {...}"
item_prefix_unnumbered(st) == <<" ", "*", " ">>

item_prefix_zero_based(st) ==
    IF st.in_ordered_list THEN <<" ">> \o Str(st.ol_number - 1) \o <<".", " ">>
    ELSE <<" ", "*", " ">>

item_prefix(st) ==
    IF st.in_ordered_list THEN <<" ">> \o Str(st.ol_number) \o <<".", " ">>
    ELSE <<" ", "*", " ">>

RECURSIVE render(_, _), render_children(_, _)

\* BaseRenderer.render_inner: ''.join(map(self.render, token.children))
render_inner(token, st) == render_children(token.children, st)

render_children(children, st) ==
    IF children = <<>> THEN Rendered(<<>>, st)
    ELSE LET h == render(Head(children), st)
             t == render_children(Tail(children), h.st)
         IN Rendered(h.out \o t.out, t.st)

\* render_list: the flag is set from token.start and the counter reset before
\* the items are rendered.
render_list(token, st) ==
    LET ordered == token.start # <<>>
        inner == render_inner(token,
                     RendererState(ordered, IF ordered THEN 0 ELSE st.ol_number))
    IN Rendered(inner.out \o <<"NL">>, inner.st)

\* render_list_item: the counter is incremented and formatted before the
\* item's children are rendered.
render_list_item(token, st) ==
    LET st1 == IF st.in_ordered_list
               THEN RendererState(TRUE, st.ol_number + 1) ELSE st
        inner == render_inner(token, st1)
    IN Rendered(item_prefix(st1) \o lstrip(inner.out), inner.st)

\* BaseRenderer.render's dispatch on the token's class
render_map(token, st) ==
    LET inner == render_inner(token, st)
    IN CASE token.type = "RawText" -> Rendered(token.content, st)
         [] token.type = "LineBreak" -> Rendered(render_line_break, st)
         [] token.type = "Strong" -> Rendered(render_strong(inner.out), inner.st)
         [] token.type = "Emphasis" -> Rendered(render_emphasis(inner.out), inner.st)
         [] token.type = "InlineCode" -> Rendered(render_inline_code(inner.out), inner.st)
         [] token.type = "Strikethrough" ->
                Rendered(render_strikethrough(inner.out), inner.st)
         [] token.type = "Paragraph" -> Rendered(render_paragraph(inner.out), inner.st)
         [] token.type = "List" -> render_list(token, st)
         [] token.type = "ListItem" -> render_list_item(token, st)
         [] token.type = "Document" -> inner

\* TerminalRenderer.render, which BaseRenderer.render_inner calls for every child
render(token, st) ==
    LET r == render_map(token, st)
    IN Rendered(collapse_newlines(r.out), r.st)

\* A new TerminalRenderer: the class attributes
NewRenderer == RendererState(FALSE, 0)

-----------------------------------------------------------------------------
(* MarkdownHelpMixin.format_help_text *)

AnsiParameterChars == {";", "?", "0", "1", "2", "3", "4", "5", "6", "7", "8", "9"}

RECURSIVE SkipParameters(_, _)
SkipParameters(s, i) ==
    IF i <= Len(s) /\ s[i] \in AnsiParameterChars THEN SkipParameters(s, i + 1) ELSE i

\* The length of the match of _ansi_re at the start of s, or 0
ansi_match(s) ==
    IF Len(s) >= 3 /\ s[1] = "ESC" /\ s[2] = "["
    THEN LET i == SkipParameters(s, 3)
         IN IF i <= Len(s) /\ s[i] \in AsciiLetters THEN i ELSE 0
    ELSE 0

RECURSIVE strip_ansi(_)
\* _ansi_re.sub('', value)
strip_ansi(s) ==
    IF s = <<>> THEN <<>>
    ELSE IF ansi_match(s) > 0 THEN strip_ansi(SubSeq(s, ansi_match(s) + 1, Len(s)))
    ELSE <<Head(s)>> \o strip_ansi(Tail(s))

RECURSIVE remove_overlay(_)
\* .replace('̶', '')
remove_overlay(s) ==
    IF s = <<>> THEN <<>>
    ELSE IF Head(s) = "U0336" THEN remove_overlay(Tail(s))
    ELSE <<Head(s)>> \o remove_overlay(Tail(s))

RECURSIVE LineEnd(_, _)
\* The index of the last character of the line that starts s
LineEnd(s, i) == IF i >= Len(s) \/ s[i] = "NL" THEN i ELSE LineEnd(s, i + 1)

RECURSIVE indent(_)
\* textwrap.indent(text, "  "): lines of whitespace only get no prefix
indent(s) ==
    IF s = <<>> THEN <<>>
    ELSE LET e == LineEnd(s, 1)
             line == SubSeq(s, 1, e)
         IN (IF strip(line) # <<>> THEN <<" ", " ">> ELSE <<>>) \o line
                \o indent(SubSeq(s, e + 1, Len(s)))

\* The colour is removed when resolve_color_default(self._colour) is False.
colour_is_off == resolve_color_default(colour) = Return("False")

\* What format_help_text writes: '\n', the rendered document, '\n'
help_text(text) ==
    LET rendered_doc == indent(strip(text))
    IN <<"NL">>
         \o (IF colour_is_off THEN remove_overlay(strip_ansi(rendered_doc))
             ELSE rendered_doc)
         \o <<"NL">>

\* The environment of a help page: each variable is unset or "1".
HelpEnvStates == {e \in EnvStates : \A n \in DOMAIN e : e[n] = <<"1">>}

\* The context of the command whose help is shown, with no colour of its own.
HelpContextStacks == {<<[color |-> "None"]>>}

IdleHelp ==
    /\ doc = Document(<<>>)
    /\ colour = "None"
    /\ pycharm_terminal = FALSE
    /\ in_ordered_list = FALSE
    /\ ol_number = 0
    /\ rendered = <<>>
    /\ written = <<>>
    /\ hpc = "idle"

InitHelp ==
    /\ doc \in Documents
    /\ colour \in Trilean
    /\ pycharm_terminal \in BOOLEAN
    /\ environ \in HelpEnvStates
    /\ ctx_stack \in HelpContextStacks
    /\ in_ordered_list = FALSE
    /\ ol_number = 0
    /\ rendered = <<>>
    /\ written = <<>>
    /\ hpc = "start"

\* renderer.render(doc) on a new TerminalRenderer
Render ==
    /\ hpc = "start"
    /\ LET r == render(doc, NewRenderer)
       IN /\ rendered' = r.out
          /\ in_ordered_list' = r.st.in_ordered_list
          /\ ol_number' = r.st.ol_number
    /\ hpc' = "rendered"
    /\ UNCHANGED <<doc, colour, pycharm_terminal, written>>
    /\ UNCHANGED not_help_vars

\* MarkdownHelpMixin.format_help_text for a command whose help parses to doc
FormatHelpText ==
    /\ hpc = "start"
    /\ LET r == render(doc, NewRenderer)
       IN /\ rendered' = r.out
          /\ in_ordered_list' = r.st.in_ordered_list
          /\ ol_number' = r.st.ol_number
          /\ written' = help_text(r.out)
    /\ hpc' = "written"
    /\ UNCHANGED <<doc, colour, pycharm_terminal>>
    /\ UNCHANGED not_help_vars

-----------------------------------------------------------------------------
(* input.py: prompt, confirm and choice *)

\* How many lines one call reads from the terminal here.
MaxReads == 4

\* str(n) for an integer
StrInt(n) == IF n < 0 THEN <<"-">> \o Str(0 - n) ELSE Str(n)

LowerCase ==
    <<"a", "b", "c", "d", "e", "f", "g", "h", "i", "j", "k", "l", "m",
      "n", "o", "p", "q", "r", "s", "t", "u", "v", "w", "x", "y", "z">>

UpperCase ==
    <<"A", "B", "C", "D", "E", "F", "G", "H", "I", "J", "K", "L", "M",
      "N", "O", "P", "Q", "R", "S", "T", "U", "V", "W", "X", "Y", "Z">>

RECURSIVE lower(_)
\* str.lower
lower(s) ==
    IF s = <<>> THEN <<>>
    ELSE LET ch == Head(s)
         IN <<IF \E i \in 1..26 : UpperCase[i] = ch
              THEN LowerCase[CHOOSE i \in 1..26 : UpperCase[i] = ch]
              ELSE ch>> \o lower(Tail(s))

RECURSIVE upper(_)
\* str.upper
upper(s) ==
    IF s = <<>> THEN <<>>
    ELSE LET ch == Head(s)
         IN <<IF \E i \in 1..26 : LowerCase[i] = ch
              THEN UpperCase[CHOOSE i \in 1..26 : LowerCase[i] = ch]
              ELSE ch>> \o upper(Tail(s))

\* What one read from the terminal gives: a line, or an exception.
Line(text) == [exc |-> "none", text |-> text]

Interrupted(exception) == [exc |-> exception, text |-> <<>>]

Interrupts == {Interrupted("KeyboardInterrupt"), Interrupted("EOFError")}

NoRead == Line(<<"not read">>)

\* click's parameter types
click_STRING == [name |-> "STRING"]

click_INT == [name |-> "INT"]

IntRange(min, max) == [name |-> "IntRange", min |-> min, max |-> max]

Path == [name |-> "Path"]

\* The paths that exist, for click.Path(exists=True).
ExistingPaths == {<<"a">>}

Converted(val) == [ok |-> TRUE, val |-> val, message |-> <<>>]

\* click.BadParameter, a click.UsageError
BadParameter(message) == [ok |-> FALSE, val |-> <<>>, message |-> message]

\* value_proc(value), for value_proc = convert_type(type, default) of a
\* type that is given: what the type's convert returns or raises.
value_proc(type, value) ==
    CASE type.name = "STRING" -> Converted(value)
      [] type.name = "INT" ->
            IF int(value).ok THEN Converted(int(value).val)
            ELSE BadParameter(<<"'">> \o value \o <<"' is not a valid integer.">>)
      [] type.name = "IntRange" ->
            IF ~int(value).ok
            THEN BadParameter(<<"'">> \o value \o <<"' is not a valid integer.">>)
            ELSE IF int(value).val < type.min \/ int(value).val > type.max
            THEN BadParameter(StrInt(int(value).val) \o <<" is not in the range ">>
                              \o StrInt(type.min) \o <<"<=x<=">> \o StrInt(type.max)
                              \o <<".">>)
            ELSE Converted(int(value).val)
      [] type.name = "Path" ->
            IF value \in ExistingPaths THEN Converted(value)
            ELSE BadParameter(<<"Path '">> \o value \o <<"' does not exist.">>)

\* The locals of prompt(): pc is "first" at the read of line 144, "confirm"
\* at the read of line 168, "returned" and "raised" after the call; calls
\* lists the values value_proc has been called with.
Frame(at, value, value2, result, calls) ==
    [pc |-> at, value |-> value, value2 |-> value2, result |-> result, calls |-> calls]

NewFrame == Frame("first", <<>>, <<>>, <<>>, <<>>)

\* A function of input.py between two reads: the locals of prompt(), what
\* has been echoed, and what the function returned or raised.
Running(f, out, returned, exception) ==
    [frame |-> f, echoed |-> out, retval |-> returned, exc |-> exception]

\* prompt() were a value that value_proc rejects returned as it was typed
prompt_convert_error_returned(a, f, value, out) ==
    LET r == value_proc(a.type, value)
        called == Append(f.calls, value)
    IN IF ~r.ok
       THEN Running(Frame("returned", value, f.value2, f.result, called),
                    out, <<value>>, "none")
       ELSE IF ~a.confirmation_prompt
       THEN Running(Frame("returned", value, f.value2, r.val, called),
                    out, <<r.val>>, "none")
       ELSE Running(Frame("confirm", value, f.value2, r.val, called),
                    out, <<>>, "none")

\* prompt(), from value_proc(value) up to the next read or the return
prompt_convert(a, f, value, out) ==
    LET r == value_proc(a.type, value)
        called == Append(f.calls, value)
    IN IF ~r.ok
       THEN Running([f EXCEPT !.pc = "first", !.value = value, !.calls = called],
                    Append(out, <<"Error: ">> \o r.message), <<>>, "none")
       ELSE IF ~a.confirmation_prompt
       THEN Running(Frame("returned", value, f.value2, r.val, called),
                    out, <<r.val>>, "none")
       ELSE Running(Frame("confirm", value, f.value2, r.val, called),
                    out, <<>>, "none")

\* prompt_func were the interrupted read taken for an empty line
prompt_func_swallow(a, f, out) == Running(f, out, <<>>, "none")

\* prompt_func raising click.Abort for KeyboardInterrupt and EOFError
prompt_func_abort(a, f, out) ==
    Running([f EXCEPT !.pc = "raised"],
            IF a.hide_input THEN Append(out, <<>>) ELSE out, <<>>, "Abort")

\* prompt() were every default passed through value_proc
prompt_step_default_converted(a, f, out, ev) ==
    IF ev.exc # "none" THEN prompt_func_abort(a, f, out)
    ELSE IF f.pc = "first" /\ ev.text = <<>> /\ a.default # <<>>
    THEN prompt_convert(a, f, a.default[1], out)
    ELSE IF f.pc = "first" /\ ev.text # <<>>
    THEN prompt_convert(a, f, ev.text, out)
    ELSE Running(f, out, <<>>, "none")

\* prompt() were the confirmation not compared with the first line
prompt_step_confirmation_unchecked(a, f, out, ev) ==
    IF ev.exc # "none" THEN prompt_func_abort(a, f, out)
    ELSE IF f.pc = "first"
    THEN IF ev.text # <<>> THEN prompt_convert(a, f, ev.text, out)
         ELSE IF a.default # <<>>
         THEN IF a.type.name = "Path"
              THEN prompt_convert(a, f, a.default[1], out)
              ELSE Running([f EXCEPT !.pc = "returned", !.value = ev.text],
                           out, a.default, "none")
         ELSE Running([f EXCEPT !.value = ev.text], out, <<>>, "none")
    ELSE IF ev.text = <<>>
         THEN Running([f EXCEPT !.value2 = ev.text], out, <<>>, "none")
         ELSE Running([f EXCEPT !.pc = "returned", !.value2 = ev.text],
                      out, <<f.result>>, "none")

\* prompt() from one read to the next, or to the return
prompt_step(a, f, out, ev) ==
    IF ev.exc # "none" THEN prompt_func_abort(a, f, out)
    ELSE IF f.pc = "first"
    THEN IF ev.text # <<>> THEN prompt_convert(a, f, ev.text, out)
         ELSE IF a.default # <<>>
         THEN IF a.type.name = "Path"
              THEN prompt_convert(a, f, a.default[1], out)
              ELSE Running([f EXCEPT !.pc = "returned", !.value = ev.text],
                           out, a.default, "none")
         ELSE Running([f EXCEPT !.value = ev.text], out, <<>>, "none")
    ELSE IF ev.text = <<>>
         THEN Running([f EXCEPT !.value2 = ev.text], out, <<>>, "none")
         ELSE IF f.value = ev.text
         THEN Running([f EXCEPT !.pc = "returned", !.value2 = ev.text],
                      out, <<f.result>>, "none")
         ELSE Running([f EXCEPT !.pc = "first", !.value2 = ev.text],
                      Append(out, <<"Error: the two entered values do not match">>),
                      <<>>, "none")

\* confirm() were every line that is no answer taken for the default
confirm_step_invalid_is_default(a, f, out, ev) ==
    IF ev.exc # "none" THEN Running([f EXCEPT !.pc = "raised"], out, <<>>, "Abort")
    ELSE LET value == strip(lower(ev.text))
             rv == IF value \in {<<"y">>, <<"y", "e", "s">>} THEN TRUE
                   ELSE IF value \in {<<"n">>, <<"n", "o">>} THEN FALSE
                   ELSE a.default
         IN IF a.abort /\ ~rv
            THEN Running([f EXCEPT !.pc = "raised", !.value = value, !.result = rv],
                         out, <<>>, "Abort")
            ELSE Running([f EXCEPT !.pc = "returned", !.value = value, !.result = rv],
                         out, <<rv>>, "none")

\* confirm() were abort not looked at
confirm_step_abort_ignored(a, f, out, ev) ==
    IF ev.exc # "none" THEN Running([f EXCEPT !.pc = "raised"], out, <<>>, "Abort")
    ELSE LET value == strip(lower(ev.text))
             rv == IF value \in {<<"y">>, <<"y", "e", "s">>} THEN TRUE
                   ELSE IF value \in {<<"n">>, <<"n", "o">>} THEN FALSE
                   ELSE a.default
         IN IF value \notin {<<"y">>, <<"y", "e", "s">>, <<"n">>, <<"n", "o">>, <<>>}
            THEN Running([f EXCEPT !.value = value],
                         Append(out, <<"Error: invalid input">>), <<>>, "none")
            ELSE Running([f EXCEPT !.pc = "returned", !.value = value, !.result = rv],
                         out, <<rv>>, "none")

\* confirm() from one read to the next, or to the return
confirm_step(a, f, out, ev) ==
    IF ev.exc # "none" THEN Running([f EXCEPT !.pc = "raised"], out, <<>>, "Abort")
    ELSE LET value == strip(lower(ev.text))
             answered == value \in {<<"y">>, <<"y", "e", "s">>, <<"n">>, <<"n", "o">>, <<>>}
             rv == IF value \in {<<"y">>, <<"y", "e", "s">>} THEN TRUE
                   ELSE IF value \in {<<"n">>, <<"n", "o">>} THEN FALSE
                   ELSE a.default
         IN IF ~answered
            THEN Running([f EXCEPT !.value = value],
                         Append(out, <<"Error: invalid input">>), <<>>, "none")
            ELSE IF a.abort /\ ~rv
            THEN Running([f EXCEPT !.pc = "raised", !.value = value, !.result = rv],
                         out, <<>>, "Abort")
            ELSE Running([f EXCEPT !.pc = "returned", !.value = value, !.result = rv],
                         out, <<rv>>, "none")

\* The keys of a mapping given as a sequence of <<key, description>> pairs.
keys(options) == {options[i][1] : i \in 1..Len(options)}

\* choice(): type_
choice_type(a) ==
    IF a.mapping THEN click_STRING
    ELSE IntRange(a.start_index, Len(a.options) + 1 - a.start_index)

RECURSIVE choice_listing(_, _)
\* choice(): the lines echoed for the options, from the i-th option on
choice_listing(a, i) ==
    IF i > Len(a.options) THEN <<>>
    ELSE <<IF a.mapping
           THEN <<" ">> \o a.options[i][1] \o <<" : ">> \o a.options[i][2]
           ELSE <<" [">> \o StrInt(i - 1 + a.start_index) \o <<"] ">> \o a.options[i]>>
         \o choice_listing(a, i + 1)

\* The arguments choice() calls prompt() with.
choice_prompt_args(a) ==
    [default |-> a.default, type |-> choice_type(a),
     confirmation_prompt |-> FALSE, hide_input |-> FALSE]

\* choice() from one read to the next, or to the return
choice_step(a, f, out, ev) ==
    LET p == prompt_step(choice_prompt_args(a), f, out, ev)
    IN IF p.retval = <<>> THEN p
       ELSE IF a.mapping
       THEN LET selection == upper(strip(p.retval[1]))
            IN IF selection \notin keys(a.options)
               THEN Running(NewFrame,
                            Append(p.echoed, <<"Please enter a valid option.">>),
                            <<>>, "none")
               ELSE Running(p.frame, p.echoed, <<selection>>, "none")
       ELSE Running(p.frame, p.echoed, <<p.retval[1] - a.start_index>>, "none")

\* The calls of prompt() made here.
PromptArgs ==
    [default : {<<>>, <<<<"a">>>>, <<<<"5">>>>},
     type : {click_STRING, click_INT, Path},
     confirmation_prompt : BOOLEAN,
     hide_input : BOOLEAN]

PromptLines == {<<>>, <<"5">>, <<"a">>}

\* The calls of confirm() made here.
ConfirmArgs == [default : BOOLEAN, abort : BOOLEAN]

ConfirmLines ==
    {<<>>, <<"y">>, <<"Y">>, <<"y", "E", "s">>, <<"n">>, <<"N", "o">>,
     <<"x">>, <<" ", "y">>, <<" ">>}

\* The calls of choice() made here.
Mappings ==
    {<<<<<<"Y">>, <<"install">>>>, <<<<"N">>, <<"keep">>>>>>,
     <<<<<<"y">>, <<"install">>>>, <<<<"n">>, <<"keep">>>>>>}

OptionLists ==
    {<<<<"Planning">>>>,
     <<<<"Planning">>, <<"Alpha">>>>,
     <<<<"Planning">>, <<"Alpha">>, <<"Beta">>>>}

StartIndexes == 0..2

ChoiceArgs ==
    [mapping : {TRUE}, options : Mappings, default : {<<>>, <<<<"N">>>>},
     start_index : {0}]
    \cup
    [mapping : {FALSE}, options : OptionLists, default : {<<>>},
     start_index : StartIndexes]

MappingLines == {<<>>, <<"y">>, <<"Y">>, <<"Z">>, <<"n", " ">>}

ListLines == {<<>>, <<"x">>} \cup {Str(n) : n \in 0..5}

IdleInput ==
    /\ func = "none"
    /\ args = <<>>
    /\ frame = Frame("idle", <<>>, <<>>, <<>>, <<>>)
    /\ echoed = <<>>
    /\ retval = <<>>
    /\ exc = "none"
    /\ reads = 0
    /\ entered = NoRead

\* A call of prompt(), confirm() or choice(), up to its first read
InitInput ==
    /\ func \in {"prompt", "confirm", "choice"}
    /\ args \in CASE func = "prompt" -> PromptArgs
                  [] func = "confirm" -> ConfirmArgs
                  [] func = "choice" -> ChoiceArgs
    /\ frame = IF func = "choice" THEN Frame("start", <<>>, <<>>, <<>>, <<>>)
               ELSE NewFrame
    /\ echoed = <<>>
    /\ retval = <<>>
    /\ exc = "none"
    /\ reads = 0
    /\ entered = NoRead

Reading == frame.pc \in {"first", "confirm"} /\ reads < MaxReads

Step(s, ev) ==
    /\ frame' = s.frame
    /\ echoed' = s.echoed
    /\ retval' = s.retval
    /\ exc' = s.exc
    /\ reads' = reads + 1
    /\ entered' = ev
    /\ UNCHANGED <<func, args>>
    /\ UNCHANGED not_input_vars

\* prompt() reads a line, or the read is interrupted
Prompt(ev) ==
    /\ func = "prompt"
    /\ Reading
    /\ Step(prompt_step(args, frame, echoed, ev), ev)

\* confirm() reads a line, or the read is interrupted
Confirm(ev) ==
    /\ func = "confirm"
    /\ Reading
    /\ Step(confirm_step(args, frame, echoed, ev), ev)

\* choice() echoes the options
ChoiceList ==
    /\ func = "choice"
    /\ frame.pc = "start"
    /\ frame' = NewFrame
    /\ echoed' = echoed \o choice_listing(args, 1)
    /\ UNCHANGED <<func, args, retval, exc, reads, entered>>
    /\ UNCHANGED not_input_vars

\* choice() reads a line through prompt(), or the read is interrupted
Choice(ev) ==
    /\ func = "choice"
    /\ Reading
    /\ Step(choice_step(args, frame, echoed, ev), ev)

\* The lines given to choice(): keys and others for a mapping, numbers and
\* others for a list.
ChoiceLines ==
    IF func = "choice" /\ args.mapping THEN MappingLines ELSE ListLines

Events(lines) == {Line(text) : text \in lines} \cup Interrupts

-----------------------------------------------------------------------------
(* tracebacks.py *)

\* An exception object: its class, str() of it, and which object it is
\* ("raised": made by the body of the with block, "configured": the one
\* given to the TracebackHandler).
Exception(cls, message, id) == [cls |-> cls, message |-> message, id |-> id]

\* __mro__ of the exception classes raised here
mro ==
    [EOFError |-> <<"EOFError", "Exception", "BaseException", "object">>,
     KeyboardInterrupt |-> <<"KeyboardInterrupt", "BaseException", "object">>,
     SystemExit |-> <<"SystemExit", "BaseException", "object">>,
     Abort |-> <<"Abort", "RuntimeError", "Exception", "BaseException", "object">>,
     ClickException |-> <<"ClickException", "Exception", "BaseException", "object">>,
     UsageError |->
        <<"UsageError", "ClickException", "Exception", "BaseException", "object">>,
     BadParameter |->
        <<"BadParameter", "UsageError", "ClickException", "Exception",
          "BaseException", "object">>,
     FileError |->
        <<"FileError", "ClickException", "Exception", "BaseException", "object">>,
     FileNotFoundError |->
        <<"FileNotFoundError", "OSError", "Exception", "BaseException", "object">>,
     FileExistsError |->
        <<"FileExistsError", "OSError", "Exception", "BaseException", "object">>,
     IsADirectoryError |->
        <<"IsADirectoryError", "OSError", "Exception", "BaseException", "object">>,
     Exception |-> <<"Exception", "BaseException", "object">>,
     ValueError |-> <<"ValueError", "Exception", "BaseException", "object">>,
     TypeError |-> <<"TypeError", "Exception", "BaseException", "object">>,
     GeneratorExit |-> <<"GeneratorExit", "BaseException", "object">>]

ExceptionClasses == DOMAIN mro

\* The names X for which TracebackHandler has a method handle_X.
HandleMethods ==
    {"EOFError", "KeyboardInterrupt", "ClickException", "Abort", "SystemExit",
     "FileNotFoundError", "FileExistsError"}

\* What leaves a with block, and what has been written to stderr by then.
Leaves(exception, err) == [left |-> exception, stderr |-> err]

\* abort were nothing written to stderr
abort_unwritten(self, msg, err) == Leaves(<<self.exception>>, err)

\* TracebackHandler.abort(msg)
abort(self, msg, err) ==
    Leaves(<<self.exception>>, IF msg # <<>> THEN Append(err, msg) ELSE err)

\* handle_<name> were every exception reported and replaced
handle_method_none_ignored(self, name, e, err) ==
    Leaves(<<self.exception>>, Append(err, <<"An error occurred: ">> \o e.message))

\* TracebackHandler.handle_<name>(e)
handle_method(self, name, e, err) ==
    CASE name = "FileNotFoundError" ->
            abort(self, <<"File Not Found: ">> \o e.message, err)
      [] name = "FileExistsError" ->
            abort(self, <<"File Exists: ">> \o e.message, err)
      [] name = "OSError" ->
            abort(self, <<"OS Error: ">> \o e.message, err)
      [] name = "Exception" ->
            abort(self, <<"Error: ">> \o e.message, err)
      [] OTHER -> Leaves(<<e>>, err)

\* handle were the last class of __mro__ with a handler taken
handle_farthest(self, e, err) ==
    LET bases == mro[e.cls]
        handled == {i \in 1..Len(bases) : bases[i] \in self.methods}
    IN IF handled # {}
       THEN handle_method(self, bases[CHOOSE i \in handled : \A j \in handled : i >= j],
                          e, err)
       ELSE abort(self, <<"An error occurred: ">> \o e.message, err)

\* TracebackHandler.handle(e): self.methods are the names X for which
\* hasattr(self, "handle_X")
handle(self, e, err) ==
    LET bases == mro[e.cls]
        handled == {i \in 1..Len(bases) : bases[i] \in self.methods}
    IN IF e.cls \in self.methods THEN handle_method(self, e.cls, e, err)
       ELSE IF handled # {}
       THEN handle_method(self, bases[CHOOSE i \in handled : \A j \in handled : i <= j],
                          e, err)
       ELSE abort(self, <<"An error occurred: ">> \o e.message, err)

\* with TracebackHandler(exception)(): body -- body raises e, or nothing (<<>>)
TracebackHandler_call(self, e, err) ==
    IF e = <<>> THEN Leaves(<<>>, err) ELSE handle(self, e[1], err)

\* with nullcontext(): body
nullcontext(e, err) == Leaves(e, err)

\* click.Abort(), the default of TracebackHandler's exception argument
DefaultException == Exception("Abort", <<>>, "configured")

\* TracebackHandler(exception)
TracebackHandler(exception) == [exception |-> exception, methods |-> HandleMethods]

\* A subclass of TracebackHandler that adds handle_OSError and
\* handle_Exception, each aborting with a message of its own.
SubclassMethods == {"OSError", "Exception"}

TracebackHandlerSubclass(exception) ==
    [exception |-> exception, methods |-> HandleMethods \cup SubclassMethods]

\* The context managers used here.
Handlers ==
    {[manager |-> "TracebackHandler", exception |-> x, show_traceback |-> FALSE] :
        x \in {DefaultException,
               Exception("SystemExit", <<"1">>, "configured"),
               Exception("SystemExit", <<"2">>, "configured")}}
    \cup
    {[manager |-> "traceback_handler", exception |-> DefaultException,
      show_traceback |-> FALSE]}
    \cup
    {[manager |-> "handle_tracebacks", exception |-> DefaultException,
      show_traceback |-> b] : b \in BOOLEAN}

Messages == {<<>>, <<"foo.txt">>}

\* What the body of the with block does: it raises, or it completes.
Bodies ==
    {<<>>} \cup {<<Exception(cls, m, "raised")>> : cls \in ExceptionClasses, m \in Messages}

IdleTraceback ==
    /\ handler = <<>>
    /\ thrown = <<>>
    /\ stderr = <<>>
    /\ left = <<>>
    /\ tpc = "idle"

InitTraceback ==
    /\ handler \in Handlers
    /\ thrown \in Bodies
    /\ stderr = <<>>
    /\ left = <<>>
    /\ tpc = "body"

Block(outcome) ==
    /\ tpc = "body"
    /\ left' = outcome.left
    /\ stderr' = outcome.stderr
    /\ tpc' = "done"
    /\ UNCHANGED <<handler, thrown>>
    /\ UNCHANGED not_traceback_vars

\* with TracebackHandler(exception)(): body
WithTracebackHandler ==
    /\ handler.manager = "TracebackHandler"
    /\ Block(TracebackHandler_call(TracebackHandler(handler.exception), thrown, stderr))

\* with traceback_handler(): body
traceback_handler ==
    /\ handler.manager = "traceback_handler"
    /\ Block(TracebackHandler_call(TracebackHandler(DefaultException), thrown, stderr))

\* with handle_tracebacks(show_traceback): body
handle_tracebacks ==
    /\ handler.manager = "handle_tracebacks"
    /\ Block(IF handler.show_traceback THEN nullcontext(thrown, stderr)
             ELSE TracebackHandler_call(TracebackHandler(DefaultException), thrown, stderr))

\* The handlers handle() is called on: a TracebackHandler or the subclass.
HandleReceivers ==
    {[manager |-> c, exception |-> x, show_traceback |-> FALSE] :
        c \in {"TracebackHandler", "TracebackHandlerSubclass"},
        x \in {DefaultException,
               Exception("SystemExit", <<"1">>, "configured"),
               Exception("SystemExit", <<"2">>, "configured")}}

\* The exceptions handle() is called with.
HandleArguments == Bodies \ {<<>>}

InitHandle ==
    /\ handler \in HandleReceivers
    /\ thrown \in HandleArguments
    /\ stderr = <<>>
    /\ left = <<>>
    /\ tpc = "body"

\* The object handle() is called on
Receiver ==
    IF handler.manager = "TracebackHandlerSubclass"
    THEN TracebackHandlerSubclass(handler.exception)
    ELSE TracebackHandler(handler.exception)

\* handler.handle(e)
Handle == Block(handle(Receiver, thrown[1], stderr))

-----------------------------------------------------------------------------
(* commands.py: SuggestionGroup.resolve_command *)

\* What a call returned or raised; parsed counts the calls of parse_args.
Returned(value) ==
    [raised |-> "none", message |-> <<>>, value |-> <<value>>, parsed |-> 0]

Raised(exception, message) ==
    [raised |-> exception, message |-> message, value |-> <<>>, parsed |-> 0]

NotReturned == [raised |-> "none", message |-> <<>>, value |-> <<>>, parsed |-> 0]

\* str.isalnum of one character, for the characters used here
isalnum(ch) ==
    \/ \E i \in 1..26 : LowerCase[i] = ch \/ UpperCase[i] = ch
    \/ IsDigit(ch)

\* _split_opt(opt)[0]
split_opt_prefix(opt) ==
    LET first == SubSeq(opt, 1, 1)
    IN IF first # <<>> /\ isalnum(first[1]) THEN <<>>
       ELSE IF SubSeq(opt, 2, 2) = first THEN SubSeq(opt, 1, 2)
       ELSE first

RECURSIVE RunLength(_, _, _, _, _, _)
\* How far a from a[i] and b from b[j] agree, up to a[ahi] and b[bhi].
RunLength(a, b, i, j, ahi, bhi) ==
    IF i > ahi \/ j > bhi \/ a[i] # b[j] THEN 0
    ELSE 1 + RunLength(a, b, i + 1, j + 1, ahi, bhi)

\* difflib.SequenceMatcher.find_longest_match on a[alo..ahi] and b[blo..bhi]:
\* <<i, j, k>> for the longest block a[i..i+k-1] = b[j..j+k-1]; of the
\* longest, the one that starts first in a, and of those first in b.
find_longest_match(a, b, alo, ahi, blo, bhi) ==
    LET starts == (alo..ahi) \X (blo..bhi)
        size(p) == RunLength(a, b, p[1], p[2], ahi, bhi)
        best == CHOOSE p \in starts : \A q \in starts :
                    \/ size(p) > size(q)
                    \/ /\ size(p) = size(q)
                       /\ p[1] < q[1] \/ (p[1] = q[1] /\ p[2] <= q[2])
    IN IF starts = {} THEN <<alo, blo, 0>> ELSE <<best[1], best[2], size(best)>>

RECURSIVE matches(_, _, _, _, _, _)
\* The sum of the sizes of SequenceMatcher.get_matching_blocks
matches(a, b, alo, ahi, blo, bhi) ==
    LET m == find_longest_match(a, b, alo, ahi, blo, bhi)
    IN IF m[3] = 0 THEN 0
       ELSE m[3] + matches(a, b, alo, m[1] - 1, blo, m[2] - 1)
                 + matches(a, b, m[1] + m[3], ahi, m[2] + m[3], bhi)

\* SequenceMatcher.ratio() of a and b is 2 * M / T; the two numbers are kept.
ratio(a, b) == [M |-> matches(a, b, 1, Len(a), 1, Len(b)), T |-> Len(a) + Len(b)]

\* ratio >= 0.6, the cutoff of get_close_matches (an empty pair has ratio 1)
AtCutoff(r) == r.T = 0 \/ 10 * r.M >= 3 * r.T

\* r1 > r2 and r1 = r2 for two ratios of strings that are not both empty
RatioGreater(r1, r2) == r1.M * r2.T > r2.M * r1.T

RatioEqual(r1, r2) == r1.M * r2.T = r2.M * r1.T

\* ord(ch) for the characters of command names here
ord(ch) ==
    IF ch = "-" THEN 45
    ELSE IF \E i \in 1..26 : UpperCase[i] = ch
    THEN 64 + (CHOOSE i \in 1..26 : UpperCase[i] = ch)
    ELSE 96 + (CHOOSE i \in 1..26 : LowerCase[i] = ch)

RECURSIVE StrGreater(_, _)
\* x > y for two strings
StrGreater(x, y) ==
    IF x = <<>> THEN FALSE
    ELSE IF y = <<>> THEN TRUE
    ELSE IF Head(x) # Head(y) THEN ord(Head(x)) > ord(Head(y))
    ELSE StrGreater(Tail(x), Tail(y))

\* difflib.get_close_matches(word, possibilities, n=1): <<>> or <<the best>>,
\* the greatest (ratio, possibility) of those at the cutoff.
get_close_matches(word, possibilities) ==
    LET close == {x \in possibilities : AtCutoff(ratio(x, word))}
    IN IF close = {} THEN <<>>
       ELSE <<CHOOSE x \in close : \A y \in close :
                \/ x = y
                \/ RatioGreater(ratio(x, word), ratio(y, word))
                \/ /\ RatioEqual(ratio(x, word), ratio(y, word))
                   /\ StrGreater(x, y)>>

\* self.get_command(ctx, cmd_name): the command, here its name, or None (<<>>)
get_command(commands, cmd_name) ==
    IF cmd_name \in commands THEN <<cmd_name>> ELSE <<>>

\* ctx.token_normalize_func(cmd_name)
token_normalize_func(ctx, cmd_name) ==
    IF ctx.token_normalize_func = "lower" THEN lower(cmd_name) ELSE cmd_name

\* repr() of a string without quotes or backslashes
repr(string) == <<"'">> \o string \o <<"'">>

\* The message of ctx.fail in resolve_command
no_such_command(original_cmd_name, closest) ==
    <<"No such command '">> \o original_cmd_name \o <<"'.">>
    \o (IF closest # <<>>
        THEN <<"NL", "The most similar command is ">> \o repr(closest[1]) \o <<".">>
        ELSE <<>>)

\* resolve_command without the check for a command that was not found
resolve_command_unchecked(ctx, arguments) ==
    LET original_cmd_name == arguments[1]
        found == get_command(ctx.commands, original_cmd_name)
        normalize == found = <<>> /\ ctx.token_normalize_func # "None"
        cmd_name == IF normalize THEN token_normalize_func(ctx, original_cmd_name)
                    ELSE original_cmd_name
        cmd == IF normalize THEN get_command(ctx.commands, cmd_name) ELSE found
    IN Returned(<<cmd_name, cmd, Tail(arguments)>>)

\* SuggestionGroup.resolve_command(ctx, args) for a group with the commands
\* ctx.commands; ctx.parse_args says what self.parse_args(ctx, ctx.args) does:
\* it returns, raises a click.UsageError, or shows the help and exits.
resolve_command(ctx, arguments) ==
    LET original_cmd_name == arguments[1]
        found == get_command(ctx.commands, original_cmd_name)
        normalize == found = <<>> /\ ctx.token_normalize_func # "None"
        cmd_name == IF normalize THEN token_normalize_func(ctx, original_cmd_name)
                    ELSE original_cmd_name
        cmd == IF normalize THEN get_command(ctx.commands, cmd_name) ELSE found
        parses == split_opt_prefix(cmd_name) # <<>>
        closest == get_close_matches(original_cmd_name, ctx.commands)
    IN IF cmd = <<>> /\ ~ctx.resilient_parsing
       THEN IF parses /\ ctx.parse_args # "returns"
            THEN [Raised(ctx.parse_args, <<>>) EXCEPT !.parsed = 1]
            ELSE [Raised("UsageError", no_such_command(original_cmd_name, closest))
                    EXCEPT !.parsed = IF parses THEN 1 ELSE 0]
       ELSE Returned(<<cmd_name, cmd, Tail(arguments)>>)

\* The groups, contexts and arguments resolve_command is called with here.
CommandSets ==
    {{<<"s", "e", "a", "r", "c", "h">>},
     {<<"c", "a", "t">>, <<"c", "a", "b">>, <<"l", "i", "s", "t">>}}

CommandNames ==
    {<<"s", "e", "a", "r", "h">>, <<"l", "i", "s", "t">>,
     <<"S", "E", "A", "R", "C", "H">>, <<"s", "e", "a", "r", "c", "h">>,
     <<"c", "a">>, <<"-", "x">>, <<"-", "-", "c", "a", "t">>, <<"C", "a", "t">>}

Contexts ==
    [commands : CommandSets,
     token_normalize_func : {"None", "lower"},
     resilient_parsing : BOOLEAN,
     parse_args : {"returns", "UsageError", "Exit"}]

ResolveCalls ==
    [ctx : Contexts, args : {<<name>> : name \in CommandNames}
                            \cup {<<name, <<"-", "x">>>> : name \in CommandNames}]

-----------------------------------------------------------------------------
(* utils.py: overtype, long_echo and hidden_cursor; Colour.from_hex *)

\* The longest payload given to Colour.from_hex.
MaxHex == 8

RECURSIVE join(_, _)
\* sep.join(strings)
join(sep, strings) ==
    IF strings = <<>> THEN <<>>
    ELSE IF Len(strings) = 1 THEN strings[1]
    ELSE strings[1] \o sep \o join(sep, Tail(strings))

\* What a call has written, and what it returned or raised.
Done(written_text, result) == [stream |-> written_text, result |-> result]

\* overtype(*objects, sep=sep, end=end): "CR" is the carriage return
overtype(objects, sep, end) ==
    IF objects = <<>> THEN Done(<<>>, Raised("IndexError", <<>>))
    ELSE LET object0 == <<"CR">> \o objects[1]
         IN Done(join(sep, <<object0>> \o Tail(objects)) \o end, Returned("None"))

RECURSIVE split(_)
\* text.split('\n')
split(text) ==
    IF \A i \in 1..Len(text) : text[i] # "NL" THEN <<text>>
    ELSE LET i == CHOOSE k \in 1..Len(text) :
                    text[k] = "NL" /\ \A m \in 1..(k - 1) : text[m] # "NL"
         IN <<SubSeq(text, 1, i - 1)>> \o split(SubSeq(text, i + 1, Len(text)))

\* pager_used without the test for a terminal
pager_used_without_tty(text, use_pager, terminal_lines, tty) ==
    IF use_pager = "None"
    THEN ~(terminal_lines >= Len(split(text)))
    ELSE use_pager = "True"

\* long_echo(text, use_pager) on a terminal of terminal_lines lines:
\* whether the pager is used
pager_used(text, use_pager, terminal_lines, tty) ==
    IF use_pager = "None"
    THEN ~(terminal_lines >= Len(split(text))) /\ tty
    ELSE use_pager = "True"

\* long_echo(text, use_pager): click.echo_via_pager shows str(text), click.echo
\* writes it and a newline
long_echo(text, use_pager, terminal_lines, tty) ==
    LET lines == split(text)
    IN IF pager_used(text, use_pager, terminal_lines, tty)
       THEN Done(join(<<"NL">>, lines), [Returned("None") EXCEPT !.message = <<"pager">>])
       ELSE Done(join(<<"NL">>, lines) \o <<"NL">>,
                 [Returned("None") EXCEPT !.message = <<"echo">>])

HexDigits ==
    <<"0", "1", "2", "3", "4", "5", "6", "7", "8", "9", "a", "b", "c", "d", "e", "f">>

IsHexDigit(ch) == \E d \in 1..16 : HexDigits[d] = ch

RECURSIVE HexValue(_)
HexValue(digits) ==
    IF digits = <<>> THEN 0
    ELSE 16 * HexValue(Front(digits))
         + (CHOOSE d \in 1..16 : HexDigits[d] = Last(digits)) - 1

\* int(chunk, 16) for a chunk of lower case hex digits and "#": ok is FALSE
\* for ValueError
int16(chunk) ==
    IF chunk # <<>> /\ \A i \in 1..Len(chunk) : IsHexDigit(chunk[i])
    THEN [ok |-> TRUE, val |-> HexValue(chunk)]
    ELSE [ok |-> FALSE, val |-> 0]

RECURSIVE lstrip_hash(_)
\* hex_colour.lstrip('#')
lstrip_hash(hex_colour) ==
    IF hex_colour # <<>> /\ Head(hex_colour) = "#" THEN lstrip_hash(Tail(hex_colour))
    ELSE hex_colour

RECURSIVE chunks(_, _)
\* value[i:i + size] for i in range(0, len(value), size), for size > 0
chunks(value, size) ==
    IF value = <<>> THEN <<>>
    ELSE IF Len(value) <= size THEN <<value>>
    ELSE <<SubSeq(value, 1, size)>> \o chunks(SubSeq(value, size + 1, Len(value)), size)

\* Colour.from_rgb(r, g, b, background)
from_rgb(r, g, b, background) ==
    IF background
    THEN Colour(CSI \o <<"4", "8", ";", "2", ";">> \o Str(r) \o <<";">> \o Str(g)
                \o <<";">> \o Str(b) \o <<"m">>, "back", AnsiBack_reset)
    ELSE Colour(CSI \o <<"3", "8", ";", "2", ";">> \o Str(r) \o <<";">> \o Str(g)
                \o <<";">> \o Str(b) \o <<"m">>, "fore", AnsiFore_reset)

\* from_hex that takes the first three chunks and leaves the rest
from_hex_truncating(hex_colour, background) ==
    LET value == lstrip_hash(hex_colour)
        lv == Len(value)
        parts == chunks(value, lv \div 3)
    IN IF lv \div 3 = 0 THEN Raised("ValueError", <<>>)
       ELSE IF \E i \in 1..Len(parts) : ~int16(parts[i]).ok THEN Raised("ValueError", <<>>)
       ELSE Returned(from_rgb(int16(parts[1]).val, int16(parts[2]).val,
                              int16(parts[3]).val, background))

\* Colour.from_hex(hex_colour, background): range() raises ValueError for a
\* step of 0, int() for a chunk that is no number, and the assignment to
\* r, g, b for other than three chunks.
from_hex(hex_colour, background) ==
    LET value == lstrip_hash(hex_colour)
        lv == Len(value)
        parts == chunks(value, lv \div 3)
    IN IF lv \div 3 = 0 THEN Raised("ValueError", <<>>)
       ELSE IF \E i \in 1..Len(parts) : ~int16(parts[i]).ok THEN Raised("ValueError", <<>>)
       ELSE IF Len(parts) # 3 THEN Raised("ValueError", <<>>)
       ELSE Returned(from_rgb(int16(parts[1]).val, int16(parts[2]).val,
                              int16(parts[3]).val, background))

\* Cursor.HIDE() and Cursor.SHOW()
Cursor_HIDE == CSI \o <<"?", "2", "5", "l">>

Cursor_SHOW == CSI \o <<"?", "2", "5", "h">>

\* What click.echo(message, nl=False, color=resolve_color_default()) writes:
\* click strips the escape sequences when the colour is off, and when it is
\* undecided and the stream no terminal.
echo(message) ==
    LET colour_default == resolve_color_default("None").value
    IN IF colour_default = "False" \/ (colour_default = "None" /\ ~isatty)
       THEN strip_ansi(message)
       ELSE message

\* A finally clause that writes nothing
show_cursor_skipped == <<>>

hide_cursor == echo(Cursor_HIDE)

show_cursor == echo(Cursor_SHOW)

\* The calls made here.
OvertypeCalls ==
    [objects : {<<>>, <<<<"f", "o", "o">>>>, <<<<"f", "o", "o">>, <<"b", "a", "r">>>>},
     sep : {<<" ">>, <<>>, <<"-">>},
     end : {<<>>, <<"NL">>}]

TerminalHeights == {1, 2, 3}

LongEchoCalls ==
    [text : {<<>>, <<"a">>, <<"a", "NL", "b">>, <<"a", "NL", "b", "NL", "c">>,
             <<"a", "NL", "NL", "b", "NL">>},
     use_pager : Trilean,
     terminal_lines : TerminalHeights]

HexAlphabet == {"#", "0", "f"}

HexColours == UNION {[1..n -> HexAlphabet] : n \in 0..MaxHex}

FromHexCalls == [hex_colour : HexColours, background : BOOLEAN]

HiddenCursorCalls == [body : {"completes", "raises"}]

IdleCall ==
    /\ callee = "none"
    /\ params = <<>>
    /\ isatty = FALSE
    /\ stream = <<>>
    /\ call_result = NotReturned
    /\ cpc = "idle"

\* A call of one of the functions, with the environment of the process
InitCall ==
    /\ callee \in {"resolve_command", "overtype", "long_echo", "from_hex", "hidden_cursor"}
    /\ params \in CASE callee = "resolve_command" -> ResolveCalls
                    [] callee = "overtype" -> OvertypeCalls
                    [] callee = "long_echo" -> LongEchoCalls
                    [] callee = "from_hex" -> FromHexCalls
                    [] callee = "hidden_cursor" -> HiddenCursorCalls
    /\ isatty \in IF callee \in {"long_echo", "hidden_cursor"} THEN BOOLEAN ELSE {FALSE}
    /\ environ \in IF callee = "hidden_cursor" THEN HelpEnvStates ELSE {<<>>}
    /\ ctx_stack \in IF callee = "hidden_cursor" THEN ContextStacks ELSE {<<>>}
    /\ stream = <<>>
    /\ call_result = NotReturned
    /\ cpc = "start"

\* group.resolve_command(ctx, args)
ResolveCommand ==
    /\ callee = "resolve_command"
    /\ cpc = "start"
    /\ call_result' = resolve_command(params.ctx, params.args)
    /\ cpc' = "done"
    /\ UNCHANGED <<callee, params, isatty, stream>>
    /\ UNCHANGED not_call_vars

\* overtype(*objects, sep=sep, end=end)
Overtype ==
    /\ callee = "overtype"
    /\ cpc = "start"
    /\ LET d == overtype(params.objects, params.sep, params.end)
       IN stream' = stream \o d.stream /\ call_result' = d.result
    /\ cpc' = "done"
    /\ UNCHANGED <<callee, params, isatty>>
    /\ UNCHANGED not_call_vars

\* long_echo(text, use_pager)
LongEcho ==
    /\ callee = "long_echo"
    /\ cpc = "start"
    /\ LET d == long_echo(params.text, params.use_pager, params.terminal_lines, isatty)
       IN stream' = stream \o d.stream /\ call_result' = d.result
    /\ cpc' = "done"
    /\ UNCHANGED <<callee, params, isatty>>
    /\ UNCHANGED not_call_vars

\* Colour.from_hex(hex_colour, background)
FromHex ==
    /\ callee = "from_hex"
    /\ cpc = "start"
    /\ call_result' = from_hex(params.hex_colour, params.background)
    /\ cpc' = "done"
    /\ UNCHANGED <<callee, params, isatty, stream>>
    /\ UNCHANGED not_call_vars

\* with hidden_cursor(): up to the yield
HiddenCursorEnter ==
    /\ callee = "hidden_cursor"
    /\ cpc = "start"
    /\ stream' = stream \o hide_cursor
    /\ cpc' = "body"
    /\ UNCHANGED <<callee, params, isatty, call_result>>
    /\ UNCHANGED not_call_vars

\* The body of the with block writes something, then completes or raises.
HiddenCursorBody ==
    /\ callee = "hidden_cursor"
    /\ cpc = "body"
    /\ stream' = stream \o <<"CR", "/">>
    /\ cpc' = IF params.body = "raises" THEN "raised" ELSE "completed"
    /\ UNCHANGED <<callee, params, isatty, call_result>>
    /\ UNCHANGED not_call_vars

\* with hidden_cursor(): the finally clause, and what leaves the block
HiddenCursorExit ==
    /\ callee = "hidden_cursor"
    /\ cpc \in {"raised", "completed"}
    /\ stream' = stream \o show_cursor
    /\ call_result' = IF cpc = "raised" THEN Raised("Exception", <<>>)
                      ELSE Returned("None")
    /\ cpc' = "done"
    /\ UNCHANGED <<callee, params, isatty>>
    /\ UNCHANGED not_call_vars

-----------------------------------------------------------------------------
(* Specifications *)

Init == InitColours /\ IdleEnv /\ IdleResolve /\ IdleHelp /\ IdleInput /\ IdleTraceback /\ IdleCall

Next ==
    \/ \E c \in Colours : Enter(c)
    \/ \E c \in Colours : Exit(c)
    \/ \E c \in Colours, text \in Texts : Call(c, text)

\* The colour stacks under scope entries, scope exits and calls.
Spec == Init /\ [][Next]_vars

ResolveInit == InitResolve /\ InitColours /\ IdleHelp /\ IdleInput /\ IdleTraceback /\ IdleCall

ResolveNext == ResolveColorDefault

\* One call of resolve_color_default, for every argument, context and environment.
SpecResolve == ResolveInit /\ [][ResolveNext]_vars

HelpInit == InitHelp /\ InitColours /\ IdleResolve /\ IdleInput /\ IdleTraceback /\ IdleCall

HelpNext == Render \/ FormatHelpText

\* A help page is rendered, or rendered and written by format_help_text.
SpecHelp == HelpInit /\ [][HelpNext]_vars

InputInit == InitInput /\ InitColours /\ IdleEnv /\ IdleResolve /\ IdleHelp /\ IdleTraceback /\ IdleCall

InputNext ==
    \/ \E ev \in Events(PromptLines) : Prompt(ev)
    \/ \E ev \in Events(ConfirmLines) : Confirm(ev)
    \/ ChoiceList
    \/ \E ev \in Events(ChoiceLines) : Choice(ev)

\* One call of prompt, confirm or choice, and the lines it reads.
SpecInput == InputInit /\ [][InputNext]_vars

TracebackInit ==
    InitTraceback /\ InitColours /\ IdleEnv /\ IdleResolve /\ IdleHelp /\ IdleInput
        /\ IdleCall

TracebackNext == WithTracebackHandler \/ traceback_handler \/ handle_tracebacks

\* One with block of a traceback handler, for every exception its body raises.
SpecTraceback == TracebackInit /\ [][TracebackNext]_vars

HandleInit ==
    InitHandle /\ InitColours /\ IdleEnv /\ IdleResolve /\ IdleHelp /\ IdleInput
        /\ IdleCall

HandleNext == Handle

\* One call of handle(e) on a TracebackHandler or on a subclass with more
\* handlers, for every exception.
SpecHandle == HandleInit /\ [][HandleNext]_vars

CallInit ==
    InitCall /\ InitColours /\ IdleResolve /\ IdleHelp /\ IdleInput /\ IdleTraceback

CallNext ==
    \/ ResolveCommand
    \/ Overtype
    \/ LongEcho
    \/ FromHex
    \/ HiddenCursorEnter
    \/ HiddenCursorBody
    \/ HiddenCursorExit

\* One call of resolve_command, overtype, long_echo or Colour.from_hex, or
\* one with block of hidden_cursor.
SpecCalls == CallInit /\ [][CallNext]_vars

-----------------------------------------------------------------------------
(* Properties of the colour stacks *)

Entered(c) == [op |-> "enter", c |-> c]
Exited(c) == [op |-> "exit", c |-> c]

C2_StaleExitIsInert ==
    (last.op = "exit" /\ Last(PrevStackOf(last.c)) # last.c.style) =>
        /\ Stacks = prev
        /\ stdout = <<>>
        /\ raised = "none"

C2_Witness ==
    /\ hist = <<Entered(Fore.RED), Entered(Fore.GREEN), Exited(Fore.RED)>>
    /\ last.op = "exit"
    /\ Last(prev[1]) = code_to_chars(32)
    /\ fore_stack = prev[1]

\* C3: every stack is non-empty and its bottom entry is the reset entry it
\* started with; no scope exit finds its stack empty.
C3_SentinelNeverPopped ==
    /\ fore_stack # <<>> /\ fore_stack[1] = <<"ESC", "[", "3", "9", "m">>
    /\ back_stack # <<>> /\ back_stack[1] = <<"ESC", "[", "4", "9", "m">>
    /\ style_stack # <<>> /\ style_stack[1] = <<"ESC", "[", "2", "2", "m">>
    /\ raised = "none"

C3_Witness ==
    /\ hist = <<Entered(Fore.RESET), Exited(Fore.RESET)>>
    /\ prev[1] = <<Fore.RESET.style, Fore.RESET.style>>
    /\ fore_stack = <<Fore.RESET.style>>

\* C4: entering or ending the scope of a code changes only the stack of the
\* code's own class (AnsiFore, AnsiBack or AnsiStyle).
C4_ChannelsIndependent ==
    last.op \in {"enter", "exit"} =>
        /\ last.c \in ForeCodes => back_stack = prev[2] /\ style_stack = prev[3]
        /\ last.c \in BackCodes => fore_stack = prev[1] /\ style_stack = prev[3]
        /\ last.c \in StyleCodes => fore_stack = prev[1] /\ back_stack = prev[2]

C4_Witness ==
    /\ last.op = "exit"
    /\ last.c = Fore.RED
    /\ fore_stack # prev[1]
    /\ Len(back_stack) > 1

\* C5: colour(text) returns the code's escape sequence, then text, then the
\* reset sequence of the code's channel; no stack changes, nothing is printed.
ChannelReset(c) == IF c \in ForeCodes THEN <<"ESC", "[", "3", "9", "m">>
                   ELSE IF c \in BackCodes THEN <<"ESC", "[", "4", "9", "m">>
                   ELSE <<"ESC", "[", "2", "2", "m">>

C5_CallWrapsText ==
    last.op = "call" =>
        /\ ret = last.c.style \o last.text \o ChannelReset(last.c)
        /\ Stacks = prev
        /\ stdout = <<>>

C5_Witness ==
    /\ last = [op |-> "call", c |-> Back.BLUE, text |-> <<"H", "i">>]
    /\ ret = <<"ESC", "[", "4", "4", "m", "H", "i", "ESC", "[", "4", "9", "m">>
    /\ Len(back_stack) > 1

-----------------------------------------------------------------------------
(* Properties of resolve_color_default *)

TruthyIntegerStrings == {<<"1">>, <<"-", "1">>, <<"1", "0">>}
ZeroStrings == {<<"0">>, <<"0", "0">>}

Truthy(name) == name \in DOMAIN environ /\ environ[name] \in TruthyIntegerStrings
Falsy(name) == name \notin DOMAIN environ \/ environ[name] \in ZeroStrings

ContextColour == IF ctx_stack = <<>> THEN "None" ELSE Last(ctx_stack).color

\* C6: an explicit True or False is returned unchanged, whatever the context's
\* colour and whatever NO_COLOR and PYCHARM_HOSTED hold.
C6_ExplicitWins ==
    (pc = "done" /\ color # "None") => resolved = [value |-> color, raised |-> "none"]

C6_Witness ==
    /\ pc = "done"
    /\ color = "False"
    /\ ContextColour = "True"
    /\ "NO_COLOR" \in DOMAIN environ /\ environ["NO_COLOR"] = <<"y", "e", "s">>
    /\ "PYCHARM_HOSTED" \in DOMAIN environ /\ environ["PYCHARM_HOSTED"] = <<"1">>
    /\ resolved.value = "False"

\* C7: with no explicit value and no colour from a context, a truthy integer
\* NO_COLOR gives False even when PYCHARM_HOSTED is truthy too; a truthy
\* PYCHARM_HOSTED alone gives True; neither set (or both zero) gives None.
C7_EnvironmentPrecedence ==
    (pc = "done" /\ color = "None" /\ ContextColour = "None") =>
        /\ Truthy("NO_COLOR") => resolved = [value |-> "False", raised |-> "none"]
        /\ (Falsy("NO_COLOR") /\ Truthy("PYCHARM_HOSTED")) =>
               resolved = [value |-> "True", raised |-> "none"]
        /\ (Falsy("NO_COLOR") /\ Falsy("PYCHARM_HOSTED")) =>
               resolved = [value |-> "None", raised |-> "none"]

C7_Witness ==
    /\ pc = "done"
    /\ color = "None"
    /\ ctx_stack = <<>>
    /\ "NO_COLOR" \in DOMAIN environ /\ environ["NO_COLOR"] = <<"1">>
    /\ "PYCHARM_HOSTED" \in DOMAIN environ /\ environ["PYCHARM_HOSTED"] = <<"1">>
    /\ resolved.value = "False"

\* C8: with no explicit value, a context that carries True or False decides:
\* that value is returned and the environment has no influence.
C8_ContextBeforeEnvironment ==
    (pc = "done" /\ color = "None" /\ ContextColour # "None") =>
        resolved = [value |-> ContextColour, raised |-> "none"]

C8_Witness ==
    /\ pc = "done"
    /\ color = "None"
    /\ ContextColour = "True"
    /\ "NO_COLOR" \in DOMAIN environ /\ environ["NO_COLOR"] = <<"1">>
    /\ resolved.value = "True"

-----------------------------------------------------------------------------
(* Properties of the renderer and of the help text *)

Ordinals == <<"1", "2", "3", "4", "5", "6", "7", "8", "9">>

RECURSIVE Concat(_)
Concat(ss) == IF ss = <<>> THEN <<>> ELSE Head(ss) \o Concat(Tail(ss))

HasNoNestedList(list) ==
    \A k \in 1..Len(list.children) :
        \A j \in 1..Len(list.children[k].children) :
            list.children[k].children[j].type # "List"

IsFlatDocument(d) ==
    \A i \in 1..Len(d.children) :
        \/ d.children[i].type = "Paragraph"
        \/ d.children[i].type = "List" /\ HasNoNestedList(d.children[i])

\* The text of a list item after its prefix
ItemText(item) == lstrip(render_inner(item, NewRenderer).out)

\* A list with its k-th item prefixed " k. " (ordered) or " * " (unordered)
ExpectedList(list) ==
    Concat([k \in 1..Len(list.children) |->
               (IF list.start # <<>> THEN <<" ", Ordinals[k], ".", " ">>
                ELSE <<" ", "*", " ">>) \o ItemText(list.children[k])])
        \o <<"NL">>

ExpectedBlock(block) ==
    IF block.type = "List" THEN ExpectedList(block)
    ELSE render(block, NewRenderer).out

ExpectedDocument(d) ==
    collapse_newlines(
        Concat([i \in 1..Len(d.children) |-> collapse_newlines(ExpectedBlock(d.children[i]))]))

\* C9: in a document whose lists hold no nested lists, the k-th item of an
\* ordered list is prefixed " k. ", counting from 1 in each list, and every
\* item of an unordered list is prefixed " * ".
C9_ListItemPrefixes ==
    (hpc = "rendered" /\ IsFlatDocument(doc)) => rendered = ExpectedDocument(doc)

C9_Witness ==
    /\ hpc = "rendered"
    /\ doc = Document(<<List(<<1>>, <<ItemA, ItemB, ItemA>>)>>)
    /\ pycharm_terminal
    /\ rendered = <<" ", "1", ".", " ", "a", "NL",
                    " ", "2", ".", " ", "b", "NL",
                    " ", "3", ".", " ", "a", "NL", "NL">>

HasNoEscape(s) == \A i \in 1..Len(s) : s[i] \notin {"ESC", "U0336"}

\* C10: when the resolved colour preference is off, the help text written by
\* format_help_text holds no escape character (so no ANSI escape sequence)
\* and no U+0336 overlay, whatever the nesting of the document.
C10_NoEscapesWhenColourOff ==
    (hpc = "written" /\ colour_is_off) => HasNoEscape(written)

\* s holds sub as a substring.
Occurs(sub, s) ==
    \E i \in 1..Len(s) : i + Len(sub) - 1 <= Len(s) /\ SubSeq(s, i, i + Len(sub) - 1) = sub

\* C25: what render returns for a document of paragraphs, lists and list
\* items, however nested, never holds three or more newlines in a row.
C25_NoTwoBlankLines ==
    hpc \in {"rendered", "written"} => ~Occurs(<<"NL", "NL", "NL">>, rendered)

\* A list followed by a paragraph: three newlines meet before the replacement.
C25_Witness ==
    /\ hpc = "rendered"
    /\ doc = Document(<<List(<<>>, <<ItemA, ItemB>>), Paragraph(<<RawText(<<"a">>)>>)>>)
    /\ pycharm_terminal
    /\ Occurs(<<"NL", "NL", "NL">>,
              render_map(doc.children[1], NewRenderer).out
                  \o render_map(doc.children[2], NewRenderer).out)
    /\ rendered = <<" ", "*", " ", "a", "NL", " ", "*", " ", "b", "NL", "NL",
                    "a", "NL">>

\* C26: when PYCHARM_HOSTED is a truthy integer or _pycharm_terminal() is
\* true, render_emphasis gives the italic letters and neither escape code 3
\* nor 23.
C26_ItalicOnEitherProbe ==
    (hpc = "rendered" /\ (pycharm_hosted \/ pycharm_terminal)) =>
        /\ ~Occurs(code_to_chars(3), rendered)
        /\ ~Occurs(code_to_chars(23), rendered)
        /\ doc = Document(<<Paragraph(<<Emphasis(<<RawText(<<"a">>)>>)>>)>>)
              => rendered = <<"NL", "italic-a", "NL">>

\* Every list of the document is an ordered list.
OrderedListsOnly(d) ==
    \A i \in 1..Len(d.children) :
        d.children[i].type = "List" => d.children[i].start # <<>>

\* C28: the k-th item of an ordered list is prefixed " k. " also when earlier
\* items of the list hold nested ordered or unordered lists.
C28_NumberingSurvivesNestedLists ==
    (hpc = "rendered" /\ OrderedListsOnly(doc)) => rendered = ExpectedDocument(doc)

-----------------------------------------------------------------------------
(* Properties of prompt, confirm and choice *)

\* A step in which the running function reads a line (or is interrupted).
Read == reads' = reads + 1

\* prompt() is at its first read (line 144) and reads the empty line.
EmptyFirstLine ==
    func = "prompt" /\ frame.pc = "first" /\ Read /\ entered' = Line(<<>>)

ErrorLine(message) == <<"Error: ">> \o message

\* C11: when a default is given and prompt reads an empty line at its first
\* read, it returns the default itself, value_proc is not called and no
\* further line is read; unless the type is click.Path: then the default is
\* passed to value_proc as a typed line is, its result is returned (or
\* awaits confirmation), and when value_proc raises, the error is echoed and
\* the first read is made again.
C11_EmptyLineGivesDefault ==
    [][/\ (EmptyFirstLine /\ args.default # <<>> /\ args.type.name # "Path") =>
            /\ frame'.calls = frame.calls
            /\ frame'.pc = "returned"
            /\ retval' = args.default
            /\ echoed' = echoed
       /\ (EmptyFirstLine /\ args.default # <<>> /\ args.type.name = "Path") =>
            /\ frame'.calls = Append(frame.calls, args.default[1])
            /\ IF args.default[1] \in ExistingPaths
               THEN /\ frame'.result = args.default[1]
                    /\ echoed' = echoed
                    /\ IF args.confirmation_prompt
                       THEN frame'.pc = "confirm" /\ retval' = <<>>
                       ELSE frame'.pc = "returned" /\ retval' = args.default
               ELSE /\ frame'.pc = "first"
                    /\ retval' = <<>>
                    /\ echoed' = Append(echoed,
                            ErrorLine(<<"Path '">> \o args.default[1]
                                      \o <<"' does not exist.">>))
       /\ (func = "prompt" /\ frame.pc = "returned") => reads' = reads
      ]_vars

C11_Witness ==
    /\ func = "prompt"
    /\ args.type.name = "INT"
    /\ args.default = <<<<"5">>>>
    /\ entered = Line(<<>>)
    /\ frame.pc = "returned"
    /\ frame.calls = <<>>
    /\ retval = <<<<"5">>>>

\* prompt() is at the read of the confirmation (line 168) and reads a line.
ConfirmationLine ==
    func = "prompt" /\ frame.pc = "confirm" /\ Read /\ entered'.exc = "none"

Mismatch == <<"Error: the two entered values do not match">>

\* C12: with confirmation_prompt set, a first line that converts is not
\* returned at once: prompt reads the confirmation; empty confirmation lines
\* are read again; a confirmation equal to the first line returns the
\* converted value; any other prints the mismatch error and goes back to the
\* first read without returning.  So prompt returns a converted value only in
\* a step that reads a confirmation equal to the first line.
C12_ConfirmationMustMatch ==
    [][/\ (func = "prompt" /\ args.confirmation_prompt /\ frame.pc = "first" /\ Read
             /\ entered'.exc = "none" /\ entered'.text # <<>>
             /\ value_proc(args.type, entered'.text).ok) =>
            /\ retval' = <<>>
            /\ frame'.pc = "confirm"
            /\ frame'.value = entered'.text
       /\ (ConfirmationLine /\ entered'.text = <<>>) =>
            /\ retval' = <<>>
            /\ frame'.pc = "confirm"
            /\ echoed' = echoed
       /\ (ConfirmationLine /\ entered'.text # <<>> /\ entered'.text = frame.value) =>
            /\ frame'.pc = "returned"
            /\ retval' = <<value_proc(args.type, frame.value).val>>
            /\ echoed' = echoed
       /\ (ConfirmationLine /\ entered'.text # <<>> /\ entered'.text # frame.value) =>
            /\ retval' = <<>>
            /\ frame'.pc = "first"
            /\ echoed' = Append(echoed, Mismatch)
       /\ (func = "prompt" /\ args.confirmation_prompt /\ retval = <<>> /\ retval' # <<>>) =>
            \/ ConfirmationLine /\ entered'.text = frame.value
            \/ EmptyFirstLine /\ args.default # <<>> /\ args.type.name # "Path"
      ]_vars

\* A mismatch, then the same first line again and its confirmation.
C12_Witness ==
    /\ func = "prompt"
    /\ args.type.name = "INT"
    /\ args.confirmation_prompt
    /\ frame.pc = "returned"
    /\ frame.calls = <<<<"5">>, <<"5">>>>
    /\ frame.value2 = <<"5">>
    /\ echoed = <<Mismatch>>
    /\ retval = <<5>>

\* prompt() is at its first read (line 144) and reads a line.
FirstLine ==
    func = "prompt" /\ frame.pc = "first" /\ Read /\ entered'.exc = "none"

\* C13: when value_proc raises a click.UsageError for the line of the first
\* read, prompt echoes "Error: " and the error's message, returns nothing
\* and makes the first read again; an empty line without a default is read
\* again with nothing echoed and value_proc not called; and when prompt
\* returns, the value is the default (empty line, a default, not a Path) or
\* what value_proc gives for the line read last (for the default, when the
\* line is empty and the type a Path).
C13_ErrorsAreRetried ==
    [][/\ (FirstLine /\ entered'.text # <<>>
             /\ ~value_proc(args.type, entered'.text).ok) =>
            /\ echoed' = Append(echoed,
                               ErrorLine(value_proc(args.type, entered'.text).message))
            /\ retval' = <<>>
            /\ exc' = "none"
            /\ frame'.pc = "first"
       /\ (FirstLine /\ entered'.text = <<>> /\ args.default = <<>>) =>
            /\ echoed' = echoed
            /\ retval' = <<>>
            /\ exc' = "none"
            /\ frame'.pc = "first"
            /\ frame'.calls = frame.calls
       /\ (func = "prompt" /\ frame.pc # "returned" /\ frame'.pc = "returned") =>
            IF entered'.text # <<>>
            THEN /\ value_proc(args.type, entered'.text).ok
                 /\ retval' = <<value_proc(args.type, entered'.text).val>>
            ELSE IF args.type.name = "Path"
            THEN /\ value_proc(args.type, args.default[1]).ok
                 /\ retval' = <<value_proc(args.type, args.default[1]).val>>
            ELSE retval' = args.default /\ args.default # <<>>
      ]_vars

\* An empty line, a line that is no integer, then an integer.
C13_Witness ==
    /\ func = "prompt"
    /\ args.type.name = "INT"
    /\ args.default = <<>>
    /\ ~args.confirmation_prompt
    /\ reads = 3
    /\ frame.calls = <<<<"a">>, <<"5">>>>
    /\ echoed = <<ErrorLine(<<"'", "a", "' is not a valid integer.">>)>>
    /\ retval = <<5>>

\* C14: when a read of prompt (the first read or the confirmation), of
\* confirm or of choice raises KeyboardInterrupt or EOFError, click.Abort
\* leaves the call: nothing is returned, and afterwards no line is read and
\* nothing is returned.
C14_InterruptAborts ==
    [][/\ (Read /\ entered'.exc \in {"KeyboardInterrupt", "EOFError"}) =>
            /\ exc' = "Abort"
            /\ retval' = <<>>
            /\ frame'.pc = "raised"
       /\ (exc = "Abort") =>
            /\ reads' = reads
            /\ retval' = <<>>
            /\ exc' = "Abort"
      ]_vars

\* The read of the confirmation is interrupted.
C14_Witness ==
    /\ func = "prompt"
    /\ args.type.name = "STRING"
    /\ args.confirmation_prompt
    /\ reads = 2
    /\ frame.value = <<"5">>
    /\ entered = Interrupted("EOFError")
    /\ exc = "Abort"
    /\ retval = <<>>

\* confirm(), called without abort, reads a line.
ConfirmLine ==
    func = "confirm" /\ ~args.abort /\ Read /\ entered'.exc = "none"

Yes == {<<"y">>, <<"y", "e", "s">>}

No == {<<"n">>, <<"n", "o">>}

InvalidInput == <<"Error: invalid input">>

\* What confirm does with a line whose answer is the string answer.
ConfirmAnswers(answer) ==
    /\ answer \in Yes => retval' = <<TRUE>> /\ echoed' = echoed
    /\ answer \in No => retval' = <<FALSE>> /\ echoed' = echoed
    /\ answer = <<>> => retval' = <<args.default>> /\ echoed' = echoed
    /\ answer \notin Yes \cup No \cup {<<>>} =>
            /\ retval' = <<>>
            /\ exc' = "none"
            /\ frame'.pc = "first"
            /\ echoed' = Append(echoed, InvalidInput)

\* C15 as stated: confirm without abort returns True for the lines y and yes
\* and False for n and no, in any case of the letters and whatever the
\* default, returns the default for the empty line, and for every other line
\* echoes "Error: invalid input", returns nothing and reads again.
C15_AnswersIgnoringCase ==
    [][ConfirmLine => ConfirmAnswers(lower(entered'.text))]_vars

\* C15, amended: the same of the line with the whitespace around it removed,
\* so that " y" is a yes and a line of blanks gives the default.
C15_AnswersIgnoringCaseAndBlanks ==
    [][ConfirmLine => ConfirmAnswers(strip(lower(entered'.text)))]_vars

\* An invalid line, then " y" with default False.
C15_Witness ==
    /\ func = "confirm"
    /\ ~args.abort
    /\ ~args.default
    /\ reads = 2
    /\ echoed = <<InvalidInput>>
    /\ entered = Line(<<" ", "y">>)
    /\ retval = <<TRUE>>

\* confirm(), called with abort=True, reads a line.
ConfirmOrAbortLine ==
    func = "confirm" /\ args.abort /\ Read /\ entered'.exc = "none"

\* C16: confirm with abort=True never returns False: when the answer is no
\* (n or no, or an empty line with default False) click.Abort is raised and
\* nothing is returned, and when it is yes (y or yes, or an empty line with
\* default True) True is returned.
C16_AbortInsteadOfFalse ==
    [][/\ (func = "confirm" /\ args.abort) => retval' # <<FALSE>>
       /\ (ConfirmOrAbortLine
             /\ \/ strip(lower(entered'.text)) \in No
                \/ strip(lower(entered'.text)) = <<>> /\ ~args.default) =>
            /\ exc' = "Abort"
            /\ retval' = <<>>
            /\ frame'.pc = "raised"
       /\ (ConfirmOrAbortLine
             /\ \/ strip(lower(entered'.text)) \in Yes
                \/ strip(lower(entered'.text)) = <<>> /\ args.default) =>
            /\ exc' = "none"
            /\ retval' = <<TRUE>>
            /\ frame'.pc = "returned"
      ]_vars

\* "No" is answered to confirm(default=True, abort=True).
C16_Witness ==
    /\ func = "confirm"
    /\ args.abort
    /\ args.default
    /\ entered = Line(<<"N", "o">>)
    /\ exc = "Abort"
    /\ retval = <<>>

\* choice(), given a list, reads a line.
ListChoiceLine ==
    func = "choice" /\ ~args.mapping /\ Read /\ entered'.exc = "none"

\* The numbers shown with the options of a list.
ShownIndexes == args.start_index .. (args.start_index + Len(args.options) - 1)

\* C17: choice, given a list, accepts a line that is an integer exactly when
\* the integer is one of start_index .. start_index + len(options) - 1 and
\* then returns it less start_index; every other line is not returned and the
\* read is made again; so what is returned is one of 0 .. len(options) - 1.
C17_ListRange ==
    [][ListChoiceLine =>
        IF int(entered'.text).ok /\ int(entered'.text).val \in ShownIndexes
        THEN /\ retval' = <<int(entered'.text).val - args.start_index>>
             /\ retval'[1] \in 0 .. (Len(args.options) - 1)
        ELSE /\ retval' = <<>>
             /\ exc' = "none"
             /\ frame'.pc = "first"
      ]_vars

\* choice(), given a mapping, reads a line that is not empty.
MappingChoiceLine ==
    /\ func = "choice" /\ args.mapping /\ Read
    /\ entered'.exc = "none" /\ entered'.text # <<>>

ValidOption == <<"Please enter a valid option.">>

\* C18: choice, given a mapping, accepts a line exactly when the line and one
\* of the keys are equal once case is ignored, in whatever case the keys are
\* written, and then returns the line in upper case; for every other line it
\* echoes "Please enter a valid option.", returns nothing and reads again.
C18_KeysIgnoringCase ==
    [][MappingChoiceLine =>
        IF \E key \in keys(args.options) : lower(key) = lower(entered'.text)
        THEN /\ retval' = <<upper(entered'.text)>>
             /\ echoed' = echoed
        ELSE /\ retval' = <<>>
             /\ exc' = "none"
             /\ frame'.pc = "first"
             /\ echoed' = Append(echoed, ValidOption)
      ]_vars

-----------------------------------------------------------------------------
(* Properties of the traceback handlers *)

\* EOFError, KeyboardInterrupt, click.Abort, SystemExit, and
\* click.ClickException with its subclasses.
Ignored(e) ==
    \/ e.cls \in {"EOFError", "KeyboardInterrupt", "Abort", "SystemExit"}
    \/ \E i \in 1..Len(mro[e.cls]) : mro[e.cls][i] = "ClickException"

\* C19: an EOFError, KeyboardInterrupt, click.Abort, click.ClickException
\* (or an exception of a subclass of it) or SystemExit raised in the block of
\* a TracebackHandler, of traceback_handler or of handle_tracebacks leaves
\* the block as the object that was raised, not as the handler's exception,
\* and nothing is written to stderr.
C19_IgnoredPropagate ==
    (tpc = "done" /\ thrown # <<>> /\ Ignored(thrown[1])) =>
        /\ left = thrown
        /\ left[1].id = "raised"
        /\ stderr = <<>>

\* A click.BadParameter in the block of TracebackHandler(SystemExit(2)).
C19_Witness ==
    /\ tpc = "done"
    /\ handler.manager = "TracebackHandler"
    /\ handler.exception = Exception("SystemExit", <<"2">>, "configured")
    /\ thrown = <<Exception("BadParameter", <<"foo.txt">>, "raised")>>
    /\ left = thrown
    /\ stderr = <<>>

\* The line written for an exception that is not ignored.
Summary(e) ==
    (CASE e.cls = "FileNotFoundError" -> <<"File Not Found: ">>
       [] e.cls = "FileExistsError" -> <<"File Exists: ">>
       [] OTHER -> <<"An error occurred: ">>) \o e.message

\* C20: for a FileNotFoundError, a FileExistsError or any other exception
\* that is not ignored, raised in the block of a handler that does not show
\* tracebacks, one line is written to stderr ("File Not Found: ", "File
\* Exists: " or "An error occurred: ", then str(e)) and the exception given
\* to the handler leaves the block in its place: click.Abort() by default,
\* SystemExit(2) for TracebackHandler(SystemExit(2)).  From the block of
\* handle_tracebacks(show_traceback=True) every exception leaves unchanged.
C20_OthersAreSummarised ==
    /\ (tpc = "done" /\ thrown # <<>> /\ ~handler.show_traceback
         /\ ~Ignored(thrown[1])) =>
            /\ stderr = <<Summary(thrown[1])>>
            /\ left = <<handler.exception>>
            /\ left[1].id = "configured"
            /\ handler.manager \in {"traceback_handler", "handle_tracebacks"} =>
                    left[1].cls = "Abort"
    /\ (tpc = "done" /\ handler.show_traceback) =>
            /\ left = thrown
            /\ stderr = <<>>

\* A FileNotFoundError in the block of TracebackHandler(SystemExit(2)).
C20_Witness ==
    /\ tpc = "done"
    /\ handler.manager = "TracebackHandler"
    /\ thrown = <<Exception("FileNotFoundError", <<"foo.txt">>, "raised")>>
    /\ stderr = <<<<"File Not Found: ", "foo.txt">>>>
    /\ left = <<Exception("SystemExit", <<"2">>, "configured")>>

-----------------------------------------------------------------------------
(* Properties of resolve_command *)

\* resolve_command has been called with a first argument that names no
\* command, also after normalisation, and parsing is not resilient.
UnknownCommand ==
    /\ callee = "resolve_command"
    /\ cpc = "done"
    /\ get_command(params.ctx.commands, params.args[1]) = <<>>
    /\ get_command(params.ctx.commands,
                   token_normalize_func(params.ctx, params.args[1])) = <<>>
    /\ ~params.ctx.resilient_parsing

\* The first argument looks like an option.
OptionLike == ~isalnum(token_normalize_func(params.ctx, params.args[1])[1])

\* The commands similar enough to the first argument, and the most similar
SimilarCommands ==
    {c \in params.ctx.commands : AtCutoff(ratio(c, params.args[1]))}

MostSimilar(c) ==
    /\ c \in SimilarCommands
    /\ \A d \in SimilarCommands :
            ~RatioGreater(ratio(d, params.args[1]), ratio(c, params.args[1]))

\* The call failed with "No such command '<name>'.", followed by the most
\* similar command if there is one.
NoSuchCommand ==
    LET name == params.args[1]
        n == Len(name)
        message == call_result.message
    IN /\ call_result.raised = "UsageError"
       /\ call_result.value = <<>>
       /\ Len(message) >= n + 2
       /\ SubSeq(message, 1, n + 2) = <<"No such command '">> \o name \o <<"'.">>
       /\ IF SimilarCommands = {} THEN Len(message) = n + 2
          ELSE \E c \in SimilarCommands :
                  /\ MostSimilar(c)
                  /\ SubSeq(message, n + 3, Len(message))
                       = <<"NL", "The most similar command is ", "'">> \o c \o <<"'", ".">>

\* C21 as stated: a first argument that names no command, also after
\* normalisation, always makes resolve_command fail with "No such command
\* '<name>'", naming the most similar command if one is similar enough, and
\* never return; for an argument that looks like an option parse_args runs
\* first.
C21_AlwaysNoSuchCommand ==
    UnknownCommand =>
        /\ NoSuchCommand
        /\ OptionLike => call_result.parsed = 1

\* C21, amended: a first argument that names no command, also after
\* normalisation, never makes resolve_command return; for an argument that
\* looks like an option parse_args runs first, and what parse_args raises
\* leaves the call; in every other case the call fails with "No such command
\* '<name>'", naming the most similar command if one is similar enough.
C21_NoSuchCommandUnlessParseArgsRaises ==
    UnknownCommand =>
        /\ call_result.value = <<>>
        /\ call_result.raised # "none"
        /\ OptionLike => call_result.parsed = 1
        /\ ~OptionLike => call_result.parsed = 0
        /\ IF OptionLike /\ params.ctx.parse_args # "returns"
           THEN call_result.raised = params.ctx.parse_args /\ call_result.message = <<>>
           ELSE NoSuchCommand

C21_Witness ==
    /\ UnknownCommand
    /\ ~OptionLike
    /\ params.args[1] = <<"s", "e", "a", "r", "h">>
    /\ params.ctx.token_normalize_func = "lower"
    /\ call_result.raised = "UsageError"
    /\ call_result.message
         = <<"No such command '", "s", "e", "a", "r", "h", "'.", "NL",
             "The most similar command is ", "'", "s", "e", "a", "r", "c", "h", "'", ".">>

-----------------------------------------------------------------------------
(* Properties of overtype, long_echo, Colour.from_hex and hidden_cursor *)

\* C22: overtype writes a carriage return, the objects separated by sep, and
\* end; without objects it writes the carriage return and end, and raises
\* nothing.
C22_OvertypeWritesCarriageReturn ==
    callee = "overtype" /\ cpc = "done" =>
        /\ call_result.raised = "none"
        /\ stream = <<"CR">> \o join(params.sep, params.objects) \o params.end

\* The number of lines of the text given to long_echo
NumberOfLines == Cardinality({i \in 1..Len(params.text) : params.text[i] = "NL"}) + 1

PagerUsed == call_result.message = <<"pager">>

RECURSIVE Payload(_)
\* The hex string without its leading "#"s
Payload(hex_colour) ==
    IF hex_colour # <<>> /\ hex_colour[1] = "#"
    THEN Payload(SubSeq(hex_colour, 2, Len(hex_colour)))
    ELSE hex_colour

\* The number a string of the digits 0 and f stands for in base 16
RECURSIVE Base16(_)
Base16(digits) ==
    IF digits = <<>> THEN 0
    ELSE 16 * Base16(SubSeq(digits, 1, Len(digits) - 1))
         + (IF digits[Len(digits)] = "f" THEN 15 ELSE 0)

\* C24: Colour.from_hex raises for every hex string whose payload has a
\* length that is no positive multiple of 3; a payload of 3k hex digits gives
\* the colour whose r, g and b are its three chunks of k digits in base 16.
C24_FromHexChunks ==
    callee = "from_hex" /\ cpc = "done" =>
        LET value == Payload(params.hex_colour)
            k == Len(value) \div 3
        IN IF Len(value) = 0 \/ Len(value) % 3 # 0
           THEN call_result.raised = "ValueError" /\ call_result.value = <<>>
           ELSE IF \A i \in 1..Len(value) : value[i] \in {"0", "f"}
           THEN /\ call_result.raised = "none"
                /\ call_result.value # <<>>
                /\ call_result.value[1].style
                     = <<"ESC", "[">> \o (IF params.background THEN <<"4">> ELSE <<"3">>)
                       \o <<"8", ";", "2", ";">>
                       \o Str(Base16(SubSeq(value, 1, k))) \o <<";">>
                       \o Str(Base16(SubSeq(value, k + 1, 2 * k))) \o <<";">>
                       \o Str(Base16(SubSeq(value, 2 * k + 1, 3 * k))) \o <<"m">>
           ELSE call_result.raised = "ValueError"

C24_Witness ==
    /\ callee = "from_hex"
    /\ cpc = "done"
    /\ params.hex_colour = <<"#", "f", "f", "0", "f">>
    /\ call_result.raised = "ValueError"
    /\ call_result.value = <<>>

\* The body of the with block has written this.
BodyOutput == <<"CR", "/">>

\* click.echo leaves the escape sequences in what it writes.
ColourShown ==
    \/ resolve_color_default("None").value = "True"
    \/ resolve_color_default("None").value = "None" /\ isatty

\* C30 as stated: hidden_cursor emits ESC[?25l before the body and ESC[?25h
\* after it, whether the body completes or raises, and what the body raises
\* leaves the block.
C30_HideThenShow ==
    callee = "hidden_cursor" /\ cpc = "done" =>
        /\ stream = <<"ESC", "[", "?", "2", "5", "l">> \o BodyOutput
                      \o <<"ESC", "[", "?", "2", "5", "h">>
        /\ call_result.raised = "Exception" <=> params.body = "raises"

\* C30, amended: when click.echo leaves escape sequences in its output (the
\* colour is forced on, or undecided with a terminal as stdout),
\* hidden_cursor emits ESC[?25l before the body and ESC[?25h after it,
\* whether the body completes or raises; otherwise click.echo strips both and
\* only the body's output is written.  In both cases the part after the body
\* runs, and what the body raises leaves the block.
C30_HideThenShowInColour ==
    LET hide == IF ColourShown THEN <<"ESC", "[", "?", "2", "5", "l">> ELSE <<>>
        show == IF ColourShown THEN <<"ESC", "[", "?", "2", "5", "h">> ELSE <<>>
    IN callee = "hidden_cursor" =>
        /\ cpc = "body" => stream = hide
        /\ cpc \in {"raised", "completed"} => stream = hide \o BodyOutput
        /\ cpc = "done" =>
              /\ stream = hide \o BodyOutput \o show
              /\ call_result.raised = "Exception" <=> params.body = "raises"
              /\ call_result.raised = "none" <=> params.body = "completes"

C30_Witness ==
    /\ callee = "hidden_cursor"
    /\ cpc = "done"
    /\ params.body = "raises"
    /\ isatty
    /\ ctx_stack = <<>>
    /\ stream = <<"ESC", "[", "?", "2", "5", "l", "CR", "/", "ESC", "[", "?", "2", "5", "h">>
    /\ call_result.raised = "Exception"

-----------------------------------------------------------------------------
(* Properties of TracebackHandler.handle *)

\* The classes of e's ancestry, e's own class first, that have a handler
HandledAncestors(e) ==
    {i \in 1..Len(mro[e.cls]) : mro[e.cls][i] \in Receiver.methods}

\* No class of e's ancestry before the i-th has a handler.
Nearest(e, i) == i \in HandledAncestors(e) /\ \A j \in HandledAncestors(e) : i <= j

\* What the handler named for a class does with e: the handlers of
\* TracebackHandler raise e again or abort with "File Not Found: " or "File
\* Exists: ", those of the subclass abort with "OS Error: " or "Error: ".
HandlerOutcome(name, e) ==
    IF name \in {"EOFError", "KeyboardInterrupt", "ClickException", "Abort", "SystemExit"}
    THEN Leaves(<<e>>, <<>>)
    ELSE Leaves(<<handler.exception>>,
                <<(IF name = "FileNotFoundError" THEN <<"File Not Found: ">>
                   ELSE IF name = "FileExistsError" THEN <<"File Exists: ">>
                   ELSE IF name = "OSError" THEN <<"OS Error: ">>
                   ELSE <<"Error: ">>) \o e.message>>)

\* C27: handle(e) runs the handler named for e's class when there is one,
\* otherwise the handler of the nearest class of e's ancestry that has one,
\* otherwise it aborts with "An error occurred: <e>"; one handler runs, and
\* a nearer class wins over a more distant one.
C27_NearestHandlerWins ==
    tpc = "done" =>
        LET e == thrown[1]
            outcome == Leaves(left, stderr)
        IN /\ Len(left) = 1
           /\ Len(stderr) <= 1
           /\ IF HandledAncestors(e) = {}
              THEN outcome = Leaves(<<handler.exception>>,
                                    <<<<"An error occurred: ">> \o e.message>>)
              ELSE \E i \in HandledAncestors(e) :
                      /\ Nearest(e, i)
                      /\ outcome = HandlerOutcome(mro[e.cls][i], e)

\* An IsADirectoryError on the subclass: handle_OSError wins over
\* handle_Exception.
C27_Witness ==
    /\ tpc = "done"
    /\ handler.manager = "TracebackHandlerSubclass"
    /\ thrown = <<Exception("IsADirectoryError", <<"foo.txt">>, "raised")>>
    /\ left = <<handler.exception>>
    /\ stderr = <<<<"OS Error: ", "foo.txt">>>>

-----------------------------------------------------------------------------
(* Properties of nested scopes *)

ResetOf(name) ==
    CASE name = "fore" -> <<"ESC", "[", "3", "9", "m">>
      [] name = "back" -> <<"ESC", "[", "4", "9", "m">>
      [] name = "style" -> <<"ESC", "[", "2", "2", "m">>

\* C29: when every with-block on a Colour has ended, and each ended before
\* the block around it, each of the three stacks holds its reset entry alone
\* again, and for every stack a block was opened on the sequence printed last
\* is the reset sequence of that stack.
C29_BalancedScopesRestoreStacks ==
    (nesting_ok /\ open_scopes = <<>>) =>
        /\ fore_stack = <<ResetOf("fore")>>
        /\ back_stack = <<ResetOf("back")>>
        /\ style_stack = <<ResetOf("style")>>
        /\ raised = "none"
        /\ \A name \in {"fore", "back", "style"} :
              last_printed[name] # <<>> => last_printed[name] = ResetOf(name)

\* with Fore.RED: with Back.BLUE: pass
C29_Witness ==
    /\ nesting_ok
    /\ open_scopes = <<>>
    /\ hist = <<Entered(Back.BLUE), Exited(Back.BLUE), Exited(Fore.RED)>>
    /\ last_printed = [name \in {"fore", "back", "style"} |->
                          IF name = "style" THEN <<>> ELSE ResetOf(name)]
    /\ Stacks = <<<<ResetOf("fore")>>, <<ResetOf("back")>>, <<ResetOf("style")>>>>

====
